---- MODULE Spec2Model ----
(***************************************************************************)
(* ExtraBeam backend: subscription reconciliation (SubscriptionService,    *)
(* SubscriptionController, AccessService) and the operations of a company  *)
(* on its slots, unavailabilities and invoices (SlotsService,              *)
(* UnavailabilitiesService, FacturesService, PaymentsService).             *)
(*                                                                         *)
(* The tables, the payment vendor's subscription objects and               *)
(* the requests in flight are the state.  A request handler is an async    *)
(* function: the code between two `await`s runs atomically on the Node     *)
(* event loop, so each action below is one such segment together with the  *)
(* database or vendor call that ends it.                                   *)
(***************************************************************************)
EXTENDS Integers, Sequences, FiniteSets, TLC

\* ------------------------------------------------------------------------
\* Bounds of the model
\* ------------------------------------------------------------------------
\* largest vendor timestamp (seconds) carried by a subscription object
MaxTime == 2
\* most vendor customers the vendor is asked to create in one behaviour
MaxCustomers == 3

\* the largest id the slots table gives out
MaxSlotId == 4
\* the last day (counted from 1970-01-01) a listing of unavailabilities covers
MaxDay == 15
\* the largest id the unavailabilities table gives out
MaxUnavailabilityId == 2
\* the largest id the factures table gives out
MaxFactureId == 2
\* the largest id the client_contacts table gives out
MaxContactId == 3

\* ------------------------------------------------------------------------
\* Program constants
\* ------------------------------------------------------------------------
\* `new Date(s.current_period_end * 1000)`
MsPerSec == 1000

\* milliseconds in an hour
MsPerHour == 3600000

\* calendar instants are counted in half days since 1970-01-01T00:00Z
HalfDaysPerDay == 2
\* getUTCDay of 1970-01-01: a Thursday
EpochWeekday == 4
\* days of a week
DaysPerWeek == 7
\* new Date('2100-01-01'), in days since 1970-01-01
Date2100 == 47482

\* ------------------------------------------------------------------------
\* Values
\* ------------------------------------------------------------------------
\* SQL NULL / JS null / undefined for string-typed fields
NULL == "<null>"

\* the processes (concurrent HTTP requests) of the model
Procs == {"p1", "p2"}

\* ids of the rows of table `entreprise`
EntIds == {1, 2}

\* a stored timestamp column: null, an ISO string, or a string that is not a date
NoDate == [k |-> "null"]
EmptyDate == [k |-> "empty"]
BadDate == [k |-> "garbage"]

\* Date.prototype.toISOString of a time in milliseconds
toISOString(ms) == [k |-> "iso", ms |-> ms]

\* JS truthiness of a string | null column
Truthy(s) == s.k \notin {"null", "empty"}

\* Number.isFinite(new Date(s).getTime())
DateIsFinite(s) == s.k = "iso"

\* new Date(s).getTime(), defined when DateIsFinite(s)
DateGetTime(s) == s.ms

\* instants the clock can show: each second boundary and one millisecond after
Instants == {s * MsPerSec + d : s \in 0..MaxTime, d \in {0, 1}}

\* the authenticated users (AuthUser of the JWT): id, role and slug claim
Users ==
  { [id |-> "u1", role |-> "freelance", slug |-> "co1"],
    [id |-> "u2", role |-> "freelance", slug |-> "co2"],
    [id |-> "u3", role |-> "client", slug |-> NULL],
    [id |-> "u3", role |-> "client", slug |-> "co1"],
    [id |-> "u9", role |-> "admin", slug |-> "co2"] }

\* a request without a valid JWT (user is null)
NoUser == [id |-> NULL, role |-> "anonymous", slug |-> NULL]

VARIABLES
  entreprise,       \* table `entreprise`: id -> row
  stripeSub,        \* the vendor's current subscription object
  stripeCustomers,  \* vendor customers created so far: sequence of entreprise ids
  now,              \* Date.now(), milliseconds
  pc,               \* per request: position in its handler
  loc,              \* per request: local variables of its handler
  resp,             \* per request: last HTTP response
  slots,            \* table `slots`: set of rows
  missions,         \* table `missions`: id -> row
  factures,         \* table `factures`: set of rows
  unavailabilities, \* table `unavailabilities`: set of rows
  client_contacts,  \* table `client_contacts`: set of rows
  subscriptionStore \* the browser's pinia store "subscription"

\* the tables of the agenda, of the invoices and of the contacts, and the
\* browser's store
office == <<slots, missions, factures, unavailabilities, client_contacts,
            subscriptionStore>>

vars == <<entreprise, stripeSub, stripeCustomers, now, pc, loc, resp, office>>

\* ------------------------------------------------------------------------
\* AccessService
\* ------------------------------------------------------------------------
\* resolveEntrepriseRef(user) with no explicit ref: user.slug ?? user.id
resolveEntrepriseRef(user) ==
  IF user.slug # NULL THEN user.slug ELSE user.id

\* String.prototype.trim of the refs of the model
Trim(ref) == IF ref = " 1" THEN "1" ELSE IF ref = "  " THEN "" ELSE ref

\* resolveEntrepriseRef(user, ref): the ref when it names something
resolveEntrepriseRefOf(user, ref) ==
  IF ref # NULL /\ Trim(ref) # "" THEN Trim(ref) ELSE resolveEntrepriseRef(user)

\* refs made of digits only
NumericRefs == {ToString(n) : n \in 0..9}

\* rows matching a ref: numeric refs match the id, others the slug
\* (user ids are UUIDs, never numeric)
findEntreprise(ref) ==
  {e \in EntIds : IF ref \in NumericRefs THEN ToString(e) = ref
                                          ELSE entreprise[e].slug = ref}

canAccessEntreprise(user, row) ==
  IF user = NoUser THEN FALSE
  ELSE IF user.role = "admin" THEN TRUE
  ELSE user.id = row.user_id

\* assertActiveSubscription, had it looked at the status only
assertActiveSubscriptionStatusOnly(row, t) ==
  row.subscription_status \in {"active", "trialing"}

\* assertActiveSubscription(entreprise) at time t: TRUE when it does not throw
assertActiveSubscription(row, t) ==
  /\ row.subscription_status \in {"active", "trialing"}
  /\ ~(/\ Truthy(row.subscription_period_end)
        /\ DateIsFinite(row.subscription_period_end)
        /\ DateGetTime(row.subscription_period_end) < t)

\* ------------------------------------------------------------------------
\* SubscriptionService.getStatus
\* ------------------------------------------------------------------------
AllowedStatuses == {"active", "trialing", "past_due", "canceled", "incomplete"}

\* normalizeStatus, had it returned every non-empty stored status as it is
normalizeStatusVerbatim(status) ==
  IF status # NULL /\ status # "" THEN status ELSE "incomplete"

normalizeStatus(status) ==
  IF status # NULL /\ status # "" /\ status \in AllowedStatuses
    THEN status
    ELSE "incomplete"

\* isExpired, had it taken an unparseable period end for a past one
isExpiredUnparsed(periodEnd, t) ==
  Truthy(periodEnd) /\ (~DateIsFinite(periodEnd) \/ DateGetTime(periodEnd) < t)

isExpiredLE(periodEnd, t) ==
  Truthy(periodEnd) /\ DateIsFinite(periodEnd) /\ DateGetTime(periodEnd) <= t

\* periodEndDate !== null && isFinite(getTime()) && getTime() < Date.now()
isExpired(periodEnd, t) ==
  Truthy(periodEnd) /\ DateIsFinite(periodEnd) /\ DateGetTime(periodEnd) < t

\* the SubscriptionStatusResponse computed from a row at time t
StatusResponse(row, t) ==
  LET normalizedStatus == normalizeStatus(row.subscription_status)
      isActiveStatus == normalizedStatus \in {"active", "trialing"}
  IN [kind |-> "status",
      status |-> normalizedStatus,
      plan |-> row.subscription_plan,
      periodEnd |-> row.subscription_period_end,
      isTrial |-> (normalizedStatus = "trialing"),
      isActive |-> (isActiveStatus /\ ~isExpired(row.subscription_period_end, t)),
      row |-> row,
      at |-> t]

HttpError(code) == [kind |-> "error", code |-> code]

getStatus(p, user) ==
  /\ pc[p] = "idle"
  /\ LET ref == resolveEntrepriseRef(user)
         found == findEntreprise(ref)
     IN resp' = [resp EXCEPT ![p] =
          IF found = {} THEN HttpError(404)
          ELSE LET row == entreprise[CHOOSE e \in found : TRUE]
               IN IF ~canAccessEntreprise(user, row) THEN HttpError(403)
                  ELSE StatusResponse(row, now)]
  /\ UNCHANGED <<office, entreprise, stripeSub, stripeCustomers, now, pc, loc>>

\* the clock advances
Tick ==
  /\ \E t \in Instants : t > now /\ now' = t
  /\ UNCHANGED <<office, entreprise, stripeSub, stripeCustomers, pc, loc, resp>>

\* ------------------------------------------------------------------------
\* Payment vendor objects
\* ------------------------------------------------------------------------
\* process.env.STRIPE_PRICE_MONTHLY / STRIPE_PRICE_ANNUAL
STRIPE_PRICE_MONTHLY == "price_m"
STRIPE_PRICE_ANNUAL == "price_a"

\* enum SubscriptionPlan
SubscriptionPlan == {"monthly", "annual"}

\* a Stripe.Subscription: current_period_end = 0 stands for an absent field
Sub(status, cpe, customer, ent, plan, price, ref) ==
  [id |-> "sub_1", status |-> status, current_period_end |-> cpe,
   customer |-> customer,
   metadata |-> [entreprise_id |-> ent, plan |-> plan, referral_code |-> ref],
   price |-> price]

StripeStatuses == {"active", "canceled", "past_due"}

\* subscription objects that differ in status and period end (company 1 by metadata)
SubsByStatus ==
  {Sub(st, 1, "cus_A", "1", "monthly", STRIPE_PRICE_MONTHLY, NULL) : st \in StripeStatuses}
  \cup {Sub("active", c, "cus_A", "1", "monthly", STRIPE_PRICE_MONTHLY, NULL) : c \in 0..MaxTime}

\* subscription objects that differ in what identifies the company
SubsByOwner ==
  {Sub("active", 1, cus, ent, NULL, NULL, NULL) :
     cus \in {NULL, "cus_B"}, ent \in {NULL, "1", "9"}}

\* subscription objects that differ in plan, price and referral code
SubsByPlan ==
  {Sub("active", 1, "cus_A", "1", pp[1], pp[2], NULL) :
     pp \in {<<NULL, NULL>>, <<"gold", NULL>>, <<"gold", STRIPE_PRICE_ANNUAL>>,
             <<"annual", STRIPE_PRICE_MONTHLY>>, <<NULL, "price_x">>}}
  \cup {Sub("active", 1, "cus_A", "1", NULL, NULL, "REF1")}

\* payloads of customer.subscription.* events
SubPayloads == SubsByStatus \cup SubsByOwner \cup SubsByPlan

\* objects the vendor may currently hold for the subscription
VendorObjects ==
  {Sub("active", 1, "cus_A", "1", "monthly", STRIPE_PRICE_MONTHLY, NULL),
   Sub("canceled", MaxTime, "cus_A", "1", NULL, NULL, NULL),
   Sub("past_due", 0, "cus_B", "9", NULL, STRIPE_PRICE_ANNUAL, "REF1")}

\* a Stripe.Checkout.Session: mode, metadata, subscription (id, NULL or "<object>")
\* and customer (the vendor customer the session was created for)
Session(mode, ent, plan, ref, sub) ==
  [mode |-> mode,
   metadata |-> [entreprise_id |-> ent, plan |-> plan, referral_code |-> ref],
   subscription |-> sub,
   customer |-> IF ent = "1" THEN "cus_A" ELSE "cus_B"]

Sessions ==
  {Session("subscription", ent, "monthly", NULL, "sub_1") : ent \in {NULL, "1", "2", "9"}}
  \cup {Session("subscription", "1", plan, ref, "sub_1") :
          plan \in {NULL, "annual"}, ref \in {NULL, "REF1"}}
  \cup {Session("subscription", "1", "monthly", NULL, sub) :
          sub \in {NULL, "sub_x", "<object>"}}
  \cup {Session("payment", "1", "monthly", NULL, "sub_1")}

\* a Stripe.Invoice: subscription is absent, an id, or an expanded (older) object
Invoices ==
  {[subscription |-> [k |-> "absent"]],
   [subscription |-> [k |-> "id", id |-> "sub_1"]],
   [subscription |-> [k |-> "id", id |-> "sub_x"]],
   [subscription |-> [k |-> "object", id |-> "sub_1",
                      object |-> Sub("trialing", 1, "cus_A", "1", NULL, NULL, NULL)]]}

CheckoutTypes == {"checkout.session.completed"}
SubscriptionTypes == {"customer.subscription.created",
                      "customer.subscription.updated",
                      "customer.subscription.deleted"}
InvoiceTypes == {"invoice.payment_succeeded", "invoice.payment_failed"}
OtherTypes == {"payment_intent.succeeded"}

\* a Stripe.Event: type, data.object and creation time
Event(type, object, created) == [type |-> type, object |-> object, created |-> created]

\* the Stripe.Event values the vendor may send
Events ==
  {Event(t, o, 1) : t \in CheckoutTypes, o \in Sessions}
  \cup {Event("customer.subscription.created", o, 1) : o \in SubsByOwner \cup SubsByPlan}
  \cup {Event("customer.subscription.updated", o, 1) : o \in SubsByStatus}
  \cup {Event("customer.subscription.deleted", o, 1) :
          o \in {x \in SubPayloads : x.status = "canceled"}}
  \cup {Event(t, o, 1) : t \in InvoiceTypes, o \in Invoices}
  \cup {Event(t, [k |-> "other"], 1) : t \in OtherTypes}

\* two generations of customer.subscription.updated events about company 1
RaceEvents ==
  {Event("customer.subscription.updated",
         Sub(st, 1, "cus_A", "1", "monthly", STRIPE_PRICE_MONTHLY, NULL), created) :
     st \in {"active", "canceled"}, created \in {1, 2}}

\* process.env.STRIPE_WEBHOOK_SECRET
STRIPE_WEBHOOK_SECRET == "whsec_live"

\* the stripe-signature header: absent, empty, or an HMAC of a body under a key
NoHeader == [k |-> "absent"]
EmptyHeader == [k |-> "empty"]
Sign(body, key) == [k |-> "hmac", key |-> key, body |-> body]

\* headers of a request carrying event ev that the vendor did not sign:
\* none, empty, signed with another key, or the signature of another body
BadSignatures(ev) ==
  {NoHeader, EmptyHeader,
   Sign(ev, "whsec_other"),
   Sign(Event("ping", [k |-> "other"], 1), STRIPE_WEBHOOK_SECRET)}

\* the events sent with such headers: one of each type
ForgedEvents ==
  {Event(t, Session("subscription", "1", "monthly", NULL, "sub_1"), 1) : t \in CheckoutTypes}
  \cup {Event(t, Sub("active", 1, "cus_A", "1", "monthly", STRIPE_PRICE_MONTHLY, NULL), 1) :
          t \in SubscriptionTypes}
  \cup {Event(t, [subscription |-> [k |-> "id", id |-> "sub_1"]], 1) : t \in InvoiceTypes}
  \cup {Event(t, [k |-> "other"], 1) : t \in OtherTypes}

\* !signature
Missing(signature) == signature.k \in {"absent", "empty"}

\* stripe.webhooks.constructEvent succeeds
constructEvent(rawBody, signature, secret) ==
  signature.k = "hmac" /\ signature.key = secret /\ signature.body = rawBody


\* ------------------------------------------------------------------------
\* Responses
\* ------------------------------------------------------------------------
\* no response yet
NoResp == [kind |-> "none"]

\* what a handler that updated no row has seen
Nothing == [k |-> "nothing"]

\* the handler returned { received: true }; warn is the logger.warn / logger.error
\* it emitted, wrote the id of the row it updated (0: none), seen what it observed
Received(warn, wrote, seen) ==
  [kind |-> "ok", warn |-> warn, wrote |-> wrote, seen |-> seen]

HttpException(status) == [k |-> "http", status |-> status]
RawError == [k |-> "raw"]

\* AllExceptionsFilter: an HttpException keeps its status, anything else is a 500
AllExceptionsFilter(exception) ==
  IF exception.k = "http" THEN HttpError(exception.status) ELSE HttpError(500)

\* the error response of a request refused for its stripe-signature header
Rejected(exception, signature) ==
  AllExceptionsFilter(exception) @@ [sig |-> signature.k]

\* locals of a request that is not running
NoLoc == [k |-> "none"]

\* ------------------------------------------------------------------------
\* Database lookups of SubscriptionService
\* ------------------------------------------------------------------------
\* id.toString()
IdString(e) == IF e = 1 THEN "1" ELSE "2"

\* .eq('slug', slug).maybeSingle(): the rows found
loadEntrepriseBySlug(slug) ==
  {e \in EntIds : entreprise[e].slug = slug}

\* .eq('id', Number(entrepriseId)).maybeSingle(): the rows found
findEntrepriseById(entrepriseId) ==
  {e \in EntIds : IdString(e) = entrepriseId}

\* .eq('stripe_customer_id', customerId).maybeSingle(): several rows are an error
findEntrepriseByCustomer(customerId) ==
  LET rows == {e \in EntIds : entreprise[e].stripe_customer_id = customerId}
  IN IF Cardinality(rows) = 1 THEN rows ELSE {}

inferPlanFromSubscription(subscription) ==
  LET metadataPlan == subscription.metadata.plan
      priceId == subscription.price
  IN IF metadataPlan # NULL /\ metadataPlan \in SubscriptionPlan THEN metadataPlan
     ELSE IF priceId # NULL /\ priceId = STRIPE_PRICE_MONTHLY THEN "monthly"
     ELSE IF priceId # NULL /\ priceId = STRIPE_PRICE_ANNUAL THEN "annual"
     ELSE NULL

\* a ?? b
Coalesce(a, b) == IF a # NULL THEN a ELSE b

\* BuildUpdate, had it prolonged the stored period end by the vendor's period
BuildUpdateExtending(row, subscription, plan, referralCode) ==
  [stripe_subscription_id |-> subscription.id,
   stripe_customer_id |-> Coalesce(row.stripe_customer_id, subscription.customer),
   subscription_status |-> subscription.status,
   subscription_period_end |->
     IF subscription.current_period_end # 0
       THEN IF DateIsFinite(row.subscription_period_end)
              THEN toISOString(DateGetTime(row.subscription_period_end)
                               + subscription.current_period_end * MsPerSec)
              ELSE toISOString(subscription.current_period_end * MsPerSec)
       ELSE NoDate,
   subscription_plan |-> Coalesce(plan, row.subscription_plan),
   referred_by |->
     IF referralCode # NULL /\ row.referred_by = NULL THEN referralCode ELSE NULL]

\* BuildUpdate, had it refused to leave the canceled status
BuildUpdateGuarded(row, subscription, plan, referralCode) ==
  [stripe_subscription_id |-> subscription.id,
   stripe_customer_id |-> Coalesce(row.stripe_customer_id, subscription.customer),
   subscription_status |->
     IF row.subscription_status = "canceled" THEN "canceled" ELSE subscription.status,
   subscription_period_end |->
     IF subscription.current_period_end # 0
       THEN toISOString(subscription.current_period_end * MsPerSec)
       ELSE NoDate,
   subscription_plan |-> Coalesce(plan, row.subscription_plan),
   referred_by |->
     IF referralCode # NULL /\ row.referred_by = NULL THEN referralCode ELSE NULL]

\* the `update` object built by updateEntrepriseOnSubscription before its await;
\* NULL for stripe_customer_id and referred_by means the key is left out
BuildUpdate(row, subscription, plan, referralCode) ==
  [stripe_subscription_id |-> subscription.id,
   stripe_customer_id |-> Coalesce(row.stripe_customer_id, subscription.customer),
   subscription_status |-> subscription.status,
   subscription_period_end |->
     IF subscription.current_period_end # 0
       THEN toISOString(subscription.current_period_end * MsPerSec)
       ELSE NoDate,
   subscription_plan |-> Coalesce(plan, row.subscription_plan),
   referred_by |->
     IF referralCode # NULL /\ row.referred_by = NULL THEN referralCode ELSE NULL]

\* UPDATE entreprise SET ... WHERE id = e
ApplyUpdate(row, update) ==
  [row EXCEPT
     !.stripe_subscription_id = update.stripe_subscription_id,
     !.stripe_customer_id =
        IF update.stripe_customer_id # NULL THEN update.stripe_customer_id ELSE @,
     !.subscription_status = update.subscription_status,
     !.subscription_period_end = update.subscription_period_end,
     !.subscription_plan = update.subscription_plan,
     !.referred_by = IF update.referred_by # NULL THEN update.referred_by ELSE @]

\* ------------------------------------------------------------------------
\* Control flow of a request
\* ------------------------------------------------------------------------
\* the handler returns or throws: the response is sent
Finish(p, r) ==
  /\ pc' = [pc EXCEPT ![p] = "idle"]
  /\ loc' = [loc EXCEPT ![p] = NoLoc]
  /\ resp' = [resp EXCEPT ![p] = r]

\* the handler awaits a database or vendor call
Goto(p, label, l) ==
  /\ pc' = [pc EXCEPT ![p] = label]
  /\ loc' = [loc EXCEPT ![p] = l]
  /\ resp' = [resp EXCEPT ![p] = NoResp]

\* an exception leaves the handler, or is caught by handleInvoiceEvent's try
Throw(p, inTry, exception) ==
  IF inTry
    THEN Finish(p, Received("invoice_error", 0, Nothing))
    ELSE Finish(p, AllExceptionsFilter(exception))

\* the vendor's answer to the previous request of p when that request applied
\* the same checkout session
PrevFetched(p, session) ==
  IF /\ resp[p].kind = "ok"
     /\ resp[p].seen.k = "update"
     /\ resp[p].seen.delivery # Nothing
     /\ resp[p].seen.delivery.session = session
    THEN resp[p].seen.delivery.subscription
    ELSE Nothing

\* ------------------------------------------------------------------------
\* SubscriptionService: webhook handlers
\* ------------------------------------------------------------------------
\* updateEntrepriseOnSubscription up to its await: the row that was read is
\* kept next to the update built from it
Resolved(p, l, e, by, plan, referralCode) ==
  Goto(p, "update",
       [k |-> "update", via |-> l.via, by |-> by, idLookup |-> l.idLookup,
        subscription |-> l.subscription, origin |-> l.origin,
        delivery |-> l.delivery, repeat |-> l.repeat, again |-> l.again,
        inTry |-> l.inTry, plan |-> plan,
        entreprise |-> entreprise[e],
        update |-> BuildUpdate(entreprise[e], l.subscription, plan, referralCode)])

\* handleSubscriptionEvent, had it looked the customer up before the metadata id
handleSubscriptionEventCustomerFirst(p, subscription, via, inTry, origin) ==
  LET l == [k |-> "resolve", via |-> via, subscription |-> subscription,
            inTry |-> inTry, origin |-> origin, idLookup |-> "skipped",
            delivery |-> Nothing, repeat |-> FALSE, again |-> FALSE]
  IN IF subscription.customer # NULL
       THEN Goto(p, "find_customer", l)
     ELSE IF subscription.metadata.entreprise_id # NULL
       THEN Goto(p, "find_id", l)
     ELSE Finish(p, Received("unlinked", 0, Nothing))

\* handleSubscriptionEvent / resolveEntrepriseFromSubscription up to the first
\* await; origin tells where the subscription object comes from
handleSubscriptionEvent(p, subscription, via, inTry, origin) ==
  LET l == [k |-> "resolve", via |-> via, subscription |-> subscription,
            inTry |-> inTry, origin |-> origin, idLookup |-> "skipped",
            delivery |-> Nothing, repeat |-> FALSE, again |-> FALSE]
  IN IF subscription.metadata.entreprise_id # NULL
       THEN Goto(p, "find_id", l)
     ELSE IF subscription.customer # NULL
       THEN Goto(p, "find_customer", l)
     ELSE Finish(p, Received("unlinked", 0, Nothing))

\* handleCheckoutCompleted, had it thrown NotFoundException where it warns
handleCheckoutCompletedThrowing(p, session) ==
  IF session.mode # "subscription"
    THEN Finish(p, Received(NULL, 0, Nothing))
  ELSE IF session.metadata.entreprise_id = NULL
    THEN Finish(p, AllExceptionsFilter(HttpException(404)))
  ELSE IF session.subscription = NULL \/ session.subscription = "<object>"
    THEN Finish(p, AllExceptionsFilter(HttpException(404)))
  ELSE Goto(p, "co_retrieve",
            [k |-> "checkout", session |-> session, prev |-> PrevFetched(p, session)])

\* handleCheckoutCompleted up to the first await
handleCheckoutCompleted(p, session) ==
  IF session.mode # "subscription"
    THEN Finish(p, Received(NULL, 0, Nothing))
  ELSE IF session.metadata.entreprise_id = NULL
    THEN Finish(p, Received("checkout_no_metadata", 0,
                            [k |-> "dropped", customer |-> session.customer]))
  ELSE IF session.subscription = NULL \/ session.subscription = "<object>"
    THEN Finish(p, Received("checkout_no_subscription", 0, Nothing))
  ELSE Goto(p, "co_retrieve",
            [k |-> "checkout", session |-> session, prev |-> PrevFetched(p, session)])

\* handleInvoiceEvent, had it rejected an invoice without subscription
handleInvoiceEventStrict(p, invoice) ==
  IF invoice.subscription.k = "absent"
    THEN Finish(p, AllExceptionsFilter(HttpException(400)))
    ELSE Goto(p, "inv_retrieve", [k |-> "invoice", invoice |-> invoice])

\* handleInvoiceEvent up to the first await
handleInvoiceEvent(p, invoice) ==
  IF invoice.subscription.k = "absent"
    THEN Finish(p, Received("invoice_no_subscription", 0, Nothing))
    ELSE Goto(p, "inv_retrieve", [k |-> "invoice", invoice |-> invoice])

\* SubscriptionService.handleWebhook
handleWebhook(p, ev, signature) ==
  IF Missing(signature)
    THEN Finish(p, Rejected(HttpException(401), signature))
  ELSE IF ~constructEvent(ev, signature, STRIPE_WEBHOOK_SECRET)
    THEN Finish(p, Rejected(HttpException(401), signature))
  ELSE IF ev.type \in CheckoutTypes
    THEN handleCheckoutCompleted(p, ev.object)
  ELSE IF ev.type \in SubscriptionTypes
    THEN handleSubscriptionEvent(p, ev.object, "subscription", FALSE,
                                 [k |-> "payload", created |-> ev.created])
  ELSE IF ev.type \in InvoiceTypes
    THEN handleInvoiceEvent(p, ev.object)
  ELSE Finish(p, Received(NULL, 0, Nothing))

\* SubscriptionController.webhook: POST /api/subscription/webhook
webhook(p, ev, signature) ==
  /\ pc[p] = "idle"
  /\ IF Missing(signature)
       THEN Finish(p, Rejected(HttpException(400), signature))
       ELSE handleWebhook(p, ev, signature)
  /\ UNCHANGED <<office, entreprise, stripeSub, stripeCustomers, now>>

\* stripe.subscriptions.retrieve answers handleCheckoutCompleted
CheckoutRetrieve(p) ==
  /\ pc[p] = "co_retrieve"
  /\ \E answer \in {"ok", "error"} :
       IF answer = "error" \/ loc[p].session.subscription # stripeSub.id
         THEN Throw(p, FALSE, RawError)
         ELSE Goto(p, "co_select", [loc[p] EXCEPT !.k = "fetched"]
                                   @@ [subscription |-> stripeSub])
  /\ UNCHANGED <<office, entreprise, stripeSub, stripeCustomers, now>>

\* the select of handleCheckoutCompleted answers
CheckoutSelect(p) ==
  /\ pc[p] = "co_select"
  /\ \E answer \in {"ok", "error"} :
       LET session == loc[p].session
           subscription == loc[p].subscription
           rows == IF answer = "error" THEN {}
                   ELSE findEntrepriseById(session.metadata.entreprise_id)
           delivery == [session |-> session, subscription |-> subscription]
           l == [via |-> "checkout", idLookup |-> "hit",
                 subscription |-> subscription,
                 origin |-> [k |-> "fetched", object |-> subscription],
                 delivery |-> delivery, repeat |-> (loc[p].prev # Nothing),
                 again |-> (loc[p].prev = subscription),
                 inTry |-> FALSE]
       IN IF rows = {}
            THEN Finish(p, Received("checkout_entreprise_introuvable", 0,
                                    [k |-> "dropped", customer |-> session.customer]))
            ELSE Resolved(p, l, CHOOSE e \in rows : TRUE, "id",
                          session.metadata.plan, session.metadata.referral_code)
  /\ UNCHANGED <<office, entreprise, stripeSub, stripeCustomers, now>>

\* InvoiceRetrieve, had it used the subscription expanded in the invoice
InvoiceRetrieveExpanded(p) ==
  /\ pc[p] = "inv_retrieve"
  /\ \E answer \in {"ok", "error"} :
       IF answer = "error" \/ loc[p].invoice.subscription.id # stripeSub.id
         THEN Throw(p, TRUE, RawError)
         ELSE handleSubscriptionEvent(p,
                IF loc[p].invoice.subscription.k = "object"
                  THEN loc[p].invoice.subscription.object ELSE stripeSub,
                "invoice", TRUE, [k |-> "fetched", object |-> stripeSub])
  /\ UNCHANGED <<office, entreprise, stripeSub, stripeCustomers, now>>

\* stripe.subscriptions.retrieve answers handleInvoiceEvent
InvoiceRetrieve(p) ==
  /\ pc[p] = "inv_retrieve"
  /\ \E answer \in {"ok", "error"} :
       IF answer = "error" \/ loc[p].invoice.subscription.id # stripeSub.id
         THEN Throw(p, TRUE, RawError)
         ELSE handleSubscriptionEvent(p, stripeSub, "invoice", TRUE,
                                      [k |-> "fetched", object |-> stripeSub])
  /\ UNCHANGED <<office, entreprise, stripeSub, stripeCustomers, now>>

\* the select of findEntrepriseById answers resolveEntrepriseFromSubscription
FindById(p) ==
  /\ pc[p] = "find_id"
  /\ \E answer \in {"ok", "error"} :
       LET subscription == loc[p].subscription
           rows == IF answer = "error" THEN {}
                   ELSE findEntrepriseById(subscription.metadata.entreprise_id)
           l == [loc[p] EXCEPT !.idLookup = IF answer = "error" THEN "error" ELSE "miss"]
       IN IF rows # {}
            THEN Resolved(p, [l EXCEPT !.idLookup = "hit"], CHOOSE e \in rows : TRUE, "id",
                          inferPlanFromSubscription(subscription),
                          subscription.metadata.referral_code)
          ELSE IF subscription.customer # NULL
            THEN Goto(p, "find_customer", l)
          ELSE Finish(p, Received("unlinked", 0, Nothing))
  /\ UNCHANGED <<office, entreprise, stripeSub, stripeCustomers, now>>

\* the select of findEntrepriseByCustomer answers
FindByCustomer(p) ==
  /\ pc[p] = "find_customer"
  /\ \E answer \in {"ok", "error"} :
       LET subscription == loc[p].subscription
           rows == IF answer = "error" THEN {}
                   ELSE findEntrepriseByCustomer(subscription.customer)
       IN IF rows # {}
            THEN Resolved(p, loc[p], CHOOSE e \in rows : TRUE, "customer",
                          inferPlanFromSubscription(subscription),
                          subscription.metadata.referral_code)
            ELSE Finish(p, Received("unlinked", 0, Nothing))
  /\ UNCHANGED <<office, entreprise, stripeSub, stripeCustomers, now>>

\* what the response of a handler that updated row e records of the update:
\* the path taken, the status stored before, whether the row had changed since
\* the handler read it, whether the delivery repeats the previous one
Seen(p, e) ==
  [k |-> "update", via |-> loc[p].via, by |-> loc[p].by,
   origin |-> loc[p].origin.k,
   created |-> IF loc[p].origin.k = "payload" THEN loc[p].origin.created ELSE 0,
   before |-> entreprise[e].subscription_status,
   carried |-> loc[p].subscription.status,
   stale |-> (entreprise[e] # loc[p].entreprise),
   delivery |-> loc[p].delivery, again |-> loc[p].again]

\* UpdateRow, had it skipped the write when the row changed since it was read
UpdateRowVersioned(p) ==
  /\ pc[p] = "update"
  /\ \E answer \in {"ok", "error"} :
       LET e == loc[p].entreprise.id
       IN IF answer = "error"
            THEN /\ Throw(p, loc[p].inTry, HttpException(500))
                 /\ UNCHANGED entreprise
          ELSE IF entreprise[e] # loc[p].entreprise
            THEN /\ Finish(p, Received(NULL, 0, Nothing))
                 /\ UNCHANGED entreprise
          ELSE /\ entreprise' = [entreprise EXCEPT ![e] = ApplyUpdate(@, loc[p].update)]
               /\ Finish(p, Received(NULL, e, Seen(p, e)))
  /\ UNCHANGED <<office, stripeSub, stripeCustomers, now>>

\* the update of updateEntrepriseOnSubscription answers
UpdateRow(p) ==
  /\ pc[p] = "update"
  /\ \E answer \in {"ok", "error"} :
       LET e == loc[p].entreprise.id
       IN IF answer = "error"
            THEN /\ Throw(p, loc[p].inTry, HttpException(500))
                 /\ UNCHANGED entreprise
            ELSE /\ entreprise' = [entreprise EXCEPT ![e] = ApplyUpdate(@, loc[p].update)]
                 /\ Finish(p, Received(NULL, e, Seen(p, e)))
  /\ UNCHANGED <<office, stripeSub, stripeCustomers, now>>

\* the vendor changes the subscription (renewal, cancellation, dunning, edits)
VendorChange ==
  /\ \E o \in VendorObjects : o # stripeSub /\ stripeSub' = o
  /\ UNCHANGED <<office, entreprise, stripeCustomers, now, pc, loc, resp>>

\* ------------------------------------------------------------------------
\* SubscriptionService.createCheckout
\* ------------------------------------------------------------------------
\* a SubscribeDto
Dto(plan, referralCode) == [plan |-> plan, referralCode |-> referralCode]

\* the checkout requests: slug, dto and authenticated user
CheckoutRequests ==
  {[slug |-> "co1", dto |-> Dto("monthly", ref), user |-> u] :
     ref \in {NULL, "REF1"},
     u \in {x \in Users : x.id \in {"u1", "u9"} \/ x.slug = NULL}}
  \cup {[slug |-> "co2", dto |-> Dto("annual", NULL), user |-> u] :
          u \in {x \in Users : x.id = "u2"}}
  \cup {[slug |-> "nope", dto |-> Dto("annual", NULL), user |-> u] :
          u \in {x \in Users : x.id = "u1"}}
  \cup {[slug |-> "co1", dto |-> Dto("monthly", NULL), user |-> NoUser]}
  \cup {[slug |-> "co1", dto |-> Dto("annual", "REF2"), user |-> u] :
          u \in {x \in Users : x.id = "u1"}}

\* getPriceId(plan), both price ids being configured
getPriceId(plan) ==
  IF plan = "monthly" THEN STRIPE_PRICE_MONTHLY ELSE STRIPE_PRICE_ANNUAL

\* buildMetadata
buildMetadata(entrepriseId, plan, referralCode) ==
  [entreprise_id |-> IdString(entrepriseId), plan |-> plan,
   referral_code |-> referralCode]

\* the id the vendor gives its n-th customer
CustomerId(n) == "cus_" \o ToString(n)

\* createCheckout once the customer id is known, up to the next await
AfterCustomer(p, l, customerId) ==
  LET m == [l EXCEPT !.customerId = customerId]
  IN IF l.dto.referralCode # NULL /\ l.entreprise.referred_by = NULL
       THEN Goto(p, "cc_referral", m)
       ELSE Goto(p, "cc_session", m)

\* createCheckout up to loadEntrepriseBySlug
createCheckout(p, slug, dto, user) ==
  /\ pc[p] = "idle"
  /\ IF user = NoUser
       THEN Finish(p, AllExceptionsFilter(HttpException(401)))
       ELSE Goto(p, "cc_load",
                 [k |-> "createCheckout", slug |-> slug, dto |-> dto, user |-> user,
                  entreprise |-> Nothing, customerId |-> NULL])
  /\ UNCHANGED <<office, entreprise, stripeSub, stripeCustomers, now>>

\* CheckoutLoad, had it not verified the caller
CheckoutLoadUnverified(p) ==
  /\ pc[p] = "cc_load"
  /\ \E answer \in {"ok", "error"} :
       LET rows == IF answer = "error" THEN {} ELSE loadEntrepriseBySlug(loc[p].slug)
       IN IF rows = {}
            THEN Finish(p, AllExceptionsFilter(HttpException(404)) @@ [lookup |-> answer])
            ELSE LET row == entreprise[CHOOSE e \in rows : TRUE]
                     l == [loc[p] EXCEPT !.entreprise = row]
                 IN IF row.email = NULL
                      THEN Finish(p, AllExceptionsFilter(HttpException(500)))
                    ELSE IF row.stripe_customer_id # NULL
                      THEN AfterCustomer(p, l, row.stripe_customer_id)
                    ELSE Goto(p, "cc_create", l)
  /\ UNCHANGED <<office, entreprise, stripeSub, stripeCustomers, now>>

\* loadEntrepriseBySlug answers; getOrCreateStripeCustomer starts
CheckoutLoad(p) ==
  /\ pc[p] = "cc_load"
  /\ \E answer \in {"ok", "error"} :
       LET rows == IF answer = "error" THEN {} ELSE loadEntrepriseBySlug(loc[p].slug)
       IN IF rows = {}
            THEN Finish(p, AllExceptionsFilter(HttpException(404)) @@ [lookup |-> answer])
            ELSE LET row == entreprise[CHOOSE e \in rows : TRUE]
                     l == [loc[p] EXCEPT !.entreprise = row]
                 IN IF ~canAccessEntreprise(loc[p].user, row)
                      THEN Finish(p, AllExceptionsFilter(HttpException(403))
                                      @@ [lookup |-> answer])
                    ELSE IF row.email = NULL
                      THEN Finish(p, AllExceptionsFilter(HttpException(500)))
                    ELSE IF row.stripe_customer_id # NULL
                      THEN AfterCustomer(p, l, row.stripe_customer_id)
                    ELSE Goto(p, "cc_create", l)
  /\ UNCHANGED <<office, entreprise, stripeSub, stripeCustomers, now>>

\* stripe.customers.create answers getOrCreateStripeCustomer
CustomerCreate(p) ==
  /\ pc[p] = "cc_create"
  /\ \/ /\ Throw(p, FALSE, RawError)
        /\ UNCHANGED stripeCustomers
     \/ /\ Len(stripeCustomers) < MaxCustomers
        /\ stripeCustomers' = Append(stripeCustomers, IdString(loc[p].entreprise.id))
        /\ Goto(p, "cc_save",
                [loc[p] EXCEPT !.customerId = CustomerId(Len(stripeCustomers) + 1)])
  /\ UNCHANGED <<office, entreprise, stripeSub, now>>

\* the update of stripe_customer_id answers getOrCreateStripeCustomer
CustomerSave(p) ==
  /\ pc[p] = "cc_save"
  /\ \/ /\ Throw(p, FALSE, HttpException(500))
        /\ UNCHANGED entreprise
     \/ /\ entreprise' = [entreprise EXCEPT
             ![loc[p].entreprise.id].stripe_customer_id = loc[p].customerId]
        /\ AfterCustomer(p, loc[p], loc[p].customerId)
  /\ UNCHANGED <<office, stripeSub, stripeCustomers, now>>

\* the update of referred_by answers createCheckout
ReferralSave(p) ==
  /\ pc[p] = "cc_referral"
  /\ \/ /\ Throw(p, FALSE, HttpException(500))
        /\ UNCHANGED entreprise
     \/ /\ entreprise' = [entreprise EXCEPT
             ![loc[p].entreprise.id].referred_by = loc[p].dto.referralCode]
        /\ Goto(p, "cc_session", loc[p])
  /\ UNCHANGED <<office, stripeSub, stripeCustomers, now>>

\* stripe.checkout.sessions.create answers createCheckout
SessionCreate(p) ==
  /\ pc[p] = "cc_session"
  /\ \E answer \in {"ok", "no_url", "error"} :
       IF answer = "error" THEN Throw(p, FALSE, RawError)
       ELSE IF answer = "no_url" THEN Throw(p, FALSE, HttpException(500))
       ELSE Finish(p, [kind |-> "checkout",
                       customer |-> loc[p].customerId,
                       price |-> getPriceId(loc[p].dto.plan),
                       metadata |-> buildMetadata(loc[p].entreprise.id, loc[p].dto.plan,
                                                  loc[p].dto.referralCode)])
  /\ UNCHANGED <<office, entreprise, stripeSub, stripeCustomers, now>>

\* ------------------------------------------------------------------------
\* Frontend: the subscription store and the router guard
\* ------------------------------------------------------------------------
\* the store as defineStore's setup leaves it
InitialStore ==
  [status |-> NULL, plan |-> NULL, periodEnd |-> NoDate, isTrial |-> FALSE,
   isActive |-> FALSE, loading |-> FALSE, error |-> NULL, hasLoadedOnce |-> FALSE]

resetState(store) ==
  [store EXCEPT !.status = NULL, !.plan = NULL, !.periodEnd = NoDate,
                !.isTrial = FALSE, !.isActive = FALSE, !.error = NULL]

hasAccess(store) == store.isActive = TRUE

\* no route: the refresh was not called by the guard
NoRoute == [name |-> "none"]

\* refresh from its cache test to its request
RefreshStart(store, force) ==
  [store EXCEPT !.hasLoadedOnce = IF force THEN FALSE ELSE @,
                !.loading = TRUE, !.error = NULL]

\* refresh, had it no cache test
refreshAlways(p, force) ==
  /\ pc[p] = "idle"
  /\ subscriptionStore' = RefreshStart(subscriptionStore, force)
  /\ Goto(p, "rf_request", [k |-> "refresh", force |-> force, to |-> NoRoute])
  /\ UNCHANGED <<slots, missions, factures, unavailabilities, client_contacts,
                 entreprise, stripeSub, stripeCustomers, now>>

\* refresh({ force }) called by a page, up to its request
refresh(p, force) ==
  /\ pc[p] = "idle"
  /\ IF subscriptionStore.hasLoadedOnce /\ ~force
       THEN /\ Finish(p, [kind |-> "refresh", sent |-> FALSE, answer |-> "none"])
            /\ UNCHANGED subscriptionStore
       ELSE /\ subscriptionStore' = RefreshStart(subscriptionStore, force)
            /\ Goto(p, "rf_request", [k |-> "refresh", force |-> force, to |-> NoRoute])
  /\ UNCHANGED <<slots, missions, factures, unavailabilities, client_contacts,
                 entreprise, stripeSub, stripeCustomers, now>>

\* what GET /api/subscription/status answers: the status, an ApiError of
\* status 401 or 403, or any other failure
StatusAnswers == {"ok", "401", "403", "500"}

\* the store after the answer to refresh's request, finally included
RefreshEnd(store, answer, data) ==
  IF answer = "ok"
    THEN [store EXCEPT !.status = data.status, !.plan = data.plan,
                       !.periodEnd = data.periodEnd, !.isTrial = data.isTrial,
                       !.isActive = data.isActive, !.hasLoadedOnce = TRUE,
                       !.loading = FALSE]
  ELSE IF answer \in {"401", "403"}
    THEN [resetState(store) EXCEPT !.hasLoadedOnce = TRUE, !.loading = FALSE]
  ELSE [store EXCEPT !.error = "message", !.loading = FALSE]

\* the routes: meta, and the param slug or ref of the path (NULL: none)
Routes ==
  {[name |-> "home", requiresAuth |-> FALSE, requiresSubscription |-> FALSE,
    role |-> {}, slug |-> NULL],
   [name |-> "entreprise-subscription", requiresAuth |-> TRUE,
    requiresSubscription |-> FALSE, role |-> {"freelance", "admin"}, slug |-> "co1"],
   [name |-> "facture", requiresAuth |-> TRUE, requiresSubscription |-> TRUE,
    role |-> {}, slug |-> "co1"]}

\* a call of next; answer is the answer to the refresh the guard awaited and
\* seen the store the guard read for its decision
Navigation(to, target, locked, answer, seen) ==
  [kind |-> "navigation", to |-> to, target |-> target, locked |-> locked,
   answer |-> answer, seen |-> seen]

\* the guard from its test of loading and hasAccess to its call of next
GuardSubscription(to, store, answer) ==
  IF ~store.loading /\ ~hasAccess(store)
    THEN IF to.slug # NULL
           THEN Navigation(to, "entreprise", "subscription", answer, store)
           ELSE Navigation(to, "home", NULL, answer, store)
    ELSE Navigation(to, to.name, NULL, answer, store)

\* router.beforeEach(to) for the user initAuth found, up to the request of
\* the refresh it awaits
beforeEach(p, to, user) ==
  /\ pc[p] = "idle"
  /\ IF to.requiresAuth /\ user = NoUser
       THEN /\ Finish(p, Navigation(to, "register", NULL, "none", Nothing))
            /\ UNCHANGED subscriptionStore
     ELSE IF to.role # {} /\ user.role \notin to.role
       THEN /\ Finish(p, Navigation(to, "home", NULL, "none", Nothing))
            /\ UNCHANGED subscriptionStore
     ELSE IF ~to.requiresSubscription
       THEN /\ Finish(p, Navigation(to, to.name, NULL, "none", Nothing))
            /\ UNCHANGED subscriptionStore
     ELSE IF ~subscriptionStore.hasLoadedOnce /\ ~subscriptionStore.loading
       THEN /\ subscriptionStore' = RefreshStart(subscriptionStore, FALSE)
            /\ Goto(p, "rf_request", [k |-> "refresh", force |-> FALSE, to |-> to])
     ELSE /\ Finish(p, GuardSubscription(to, subscriptionStore, "none"))
          /\ UNCHANGED subscriptionStore
  /\ UNCHANGED <<slots, missions, factures, unavailabilities, client_contacts,
                 entreprise, stripeSub, stripeCustomers, now>>

\* the request of refresh is answered; the guard that awaited it goes on
RefreshAnswer(p) ==
  /\ pc[p] = "rf_request"
  /\ \E answer \in StatusAnswers :
       LET store == RefreshEnd(subscriptionStore, answer,
                               StatusResponse(entreprise[1], now))
       IN /\ subscriptionStore' = store
          /\ IF loc[p].to = NoRoute
               THEN Finish(p, [kind |-> "refresh", sent |-> TRUE, answer |-> answer])
               ELSE Finish(p, GuardSubscription(loc[p].to, store, answer))
  /\ UNCHANGED <<slots, missions, factures, unavailabilities, client_contacts,
                 entreprise, stripeSub, stripeCustomers, now>>

\* reset()
reset(p) ==
  /\ pc[p] = "idle"
  /\ subscriptionStore' =
       [resetState(subscriptionStore) EXCEPT !.loading = FALSE,
                                             !.hasLoadedOnce = FALSE]
  /\ Finish(p, [kind |-> "reset"])
  /\ UNCHANGED <<slots, missions, factures, unavailabilities, client_contacts,
                 entreprise, stripeSub, stripeCustomers, now>>

\* ------------------------------------------------------------------------
\* Initial state
\* ------------------------------------------------------------------------
\* a slot row; mission_id 0 is null
SlotRow(id, ent, mission, start, end) ==
  [id |-> id, entreprise_id |-> ent, mission_id |-> mission,
   start |-> start, end |-> end]

\* the ISO string of hour h
Hour(h) == toISOString(h * MsPerHour)

\* missions 1 and 2 are company 1's, mission 3 is company 2's
InitialMissions ==
  (1 :> [id |-> 1, entreprise_id |-> 1, status |-> "validated", client_id |-> "u3"])
  @@ (2 :> [id |-> 2, entreprise_id |-> 1, status |-> "proposed", client_id |-> NULL])
  @@ (3 :> [id |-> 3, entreprise_id |-> 2, status |-> "refused", client_id |-> NULL])

InitialSlots ==
  {SlotRow(1, 1, 1, Hour(0), Hour(2)),
   SlotRow(2, 1, 2, Hour(1), Hour(1)),
   SlotRow(3, 2, 3, Hour(0), Hour(1))}

InitialOffice ==
  /\ client_contacts = {}
  /\ subscriptionStore = InitialStore
  /\ slots = InitialSlots
  /\ missions = InitialMissions
  /\ factures = {}
  /\ unavailabilities = {}

Row(id, slug, user, email, customer, sub, status, periodEnd, plan, ref) ==
  [id |-> id, slug |-> slug, user_id |-> user, email |-> email,
   stripe_customer_id |-> customer, stripe_subscription_id |-> sub,
   subscription_status |-> status, subscription_period_end |-> periodEnd,
   subscription_plan |-> plan, referred_by |-> ref]

\* company 1 never subscribed; company 2 is a former subscriber
InitialEntreprise ==
  (1 :> Row(1, "co1", "u1", "a@co1", NULL, NULL, NULL, NoDate, NULL, NULL))
  @@ (2 :> Row(2, "co2", "u2", "b@co2", "cus_B", "sub_0", "canceled",
               toISOString(1 * MsPerSec), "annual", NULL))

\* ------------------------------------------------------------------------
\* SlotsService
\* ------------------------------------------------------------------------
\* the error response of a refused request; why names the exception's message
Refused(status, why) ==
  AllExceptionsFilter(HttpException(status)) @@ [why |-> why]

\* Gate, had it left the access check out
GateOpen(user, rows, t) ==
  IF rows = {} THEN Refused(404, "entreprise") @@ [user |-> user]
  ELSE LET row == entreprise[CHOOSE e \in rows : TRUE]
       IN IF ~assertActiveSubscription(row, t)
            THEN Refused(403, "subscription") @@ [user |-> user]
          ELSE Nothing

\* what findEntreprise, canAccessEntreprise and assertActiveSubscription make
\* of the rows found for a ref at time t: the refusal, or Nothing; the
\* refusal remembers the caller it was given to
Gate(user, rows, t) ==
  IF rows = {} THEN Refused(404, "entreprise") @@ [user |-> user]
  ELSE LET row == entreprise[CHOOSE e \in rows : TRUE]
       IN IF ~canAccessEntreprise(user, row)
            THEN Refused(403, "access") @@ [user |-> user]
          ELSE IF ~assertActiveSubscription(row, t)
            THEN Refused(403, "subscription") @@ [user |-> user]
          ELSE Nothing

\* mission statuses
MissionStatuses == {"proposed", "validated", "refused", "paid", "completed"}

\* the id given to an inserted slot: the first one free
NextSlotId == CHOOSE i \in 1..(MaxSlotId + 1) :
                /\ \A r \in slots : r.id # i
                /\ \A j \in 1..(i - 1) : \E r \in slots : r.id = j

\* bodies of POST /entreprises/:ref/slots
SlotBodies ==
  {[start |-> Hour(0), end |-> Hour(1), mission_id |-> m] : m \in {0, 1, 3, 7}}
  \cup {[start |-> NoDate, end |-> Hour(1), mission_id |-> 0],
        [start |-> Hour(2), end |-> EmptyDate, mission_id |-> 1]}

\* bodies of PUT /entreprises/:ref/slots/:id, passed to the update as they are
SlotUpdates ==
  {[mission_id |-> m] : m \in {0, 2, 3, 7}} \cup {[end |-> Hour(3)]}

\* an update applied to a row: the columns it names are replaced
Patch(row, updates) == updates @@ row

\* SlotsService.createSlot up to its first await after findEntreprise
createSlot(p, ref, body, user) ==
  /\ pc[p] = "idle"
  /\ \E answer \in {"ok", "error"} :
       LET rows == IF answer = "error" THEN {} ELSE findEntreprise(ref)
           refusal == Gate(user, rows, now)
           l == [k |-> "createSlot", entreprise_id |-> CHOOSE e \in rows : TRUE,
                 body |-> body, user |-> user, missionId |-> 0]
       IN IF refusal # Nothing THEN Finish(p, refusal)
          ELSE IF ~Truthy(body.start) \/ ~Truthy(body.end)
            THEN Finish(p, Refused(400, "start_end") @@ [user |-> user])
          ELSE IF body.mission_id # 0 THEN Goto(p, "cs_mission", l)
          ELSE Goto(p, "cs_insert", l)
  /\ UNCHANGED <<office, entreprise, stripeSub, stripeCustomers, now>>

\* the select of the mission answers createSlot; .single() errors on no row
CreateSlotMission(p) ==
  /\ pc[p] = "cs_mission"
  /\ \E answer \in {"ok", "error"} :
       LET m == loc[p].body.mission_id
       IN IF answer = "error" \/ m \notin DOMAIN missions
            THEN Finish(p, Refused(500, "mission"))
          ELSE IF missions[m].entreprise_id # loc[p].entreprise_id
            THEN Finish(p, Refused(400, "mission"))
          ELSE Goto(p, "cs_insert", [loc[p] EXCEPT !.missionId = m])
  /\ UNCHANGED <<office, entreprise, stripeSub, stripeCustomers, now>>

\* the insert of createSlot answers
CreateSlotInsert(p) ==
  /\ pc[p] = "cs_insert"
  /\ \/ /\ Finish(p, Refused(500, "insert"))
        /\ UNCHANGED slots
     \/ /\ NextSlotId <= MaxSlotId
        /\ LET row == SlotRow(NextSlotId, loc[p].entreprise_id, loc[p].missionId,
                              loc[p].body.start, loc[p].body.end)
           IN /\ slots' = slots \cup {row}
              /\ Finish(p, [kind |-> "slot", op |-> "createSlot", slot |-> row])
  /\ UNCHANGED <<client_contacts, subscriptionStore, missions, factures, unavailabilities,
                 entreprise, stripeSub, stripeCustomers, now>>

\* SlotsService.updateSlot up to the update
updateSlot(p, ref, id, updates, user) ==
  /\ pc[p] = "idle"
  /\ \E answer \in {"ok", "error"} :
       LET rows == IF answer = "error" THEN {} ELSE findEntreprise(ref)
           refusal == Gate(user, rows, now)
       IN IF refusal # Nothing THEN Finish(p, refusal)
          ELSE Goto(p, "us_update",
                    [k |-> "updateSlot", entreprise_id |-> CHOOSE e \in rows : TRUE,
                     id |-> id, updates |-> updates, user |-> user])
  /\ UNCHANGED <<office, entreprise, stripeSub, stripeCustomers, now>>

\* the rows .eq('id', id).eq('entreprise_id', entreprise.id) selects
SlotsOf(id, e) == {r \in slots : r.id = id /\ r.entreprise_id = e}

\* the update violates the foreign key of mission_id
BreaksMissionKey(updates) ==
  /\ "mission_id" \in DOMAIN updates
  /\ updates.mission_id # 0
  /\ updates.mission_id \notin DOMAIN missions

\* the update of updateSlot answers; .single() errors when no row matched
UpdateSlotWrite(p) ==
  /\ pc[p] = "us_update"
  /\ \E answer \in {"ok", "error"} :
       LET target == SlotsOf(loc[p].id, loc[p].entreprise_id)
       IN IF answer = "error" \/ target = {} \/ BreaksMissionKey(loc[p].updates)
            THEN /\ Finish(p, Refused(500, "update"))
                 /\ UNCHANGED slots
            ELSE LET row == Patch(CHOOSE r \in target : TRUE, loc[p].updates)
                 IN /\ slots' = (slots \ target) \cup {row}
                    /\ Finish(p, [kind |-> "slot", op |-> "updateSlot", slot |-> row])
  /\ UNCHANGED <<client_contacts, subscriptionStore, missions, factures, unavailabilities,
                 entreprise, stripeSub, stripeCustomers, now>>

\* SlotsService.deleteSlot up to the delete
deleteSlot(p, ref, id, user) ==
  /\ pc[p] = "idle"
  /\ \E answer \in {"ok", "error"} :
       LET rows == IF answer = "error" THEN {} ELSE findEntreprise(ref)
           refusal == Gate(user, rows, now)
       IN IF refusal # Nothing THEN Finish(p, refusal)
          ELSE Goto(p, "ds_delete",
                    [k |-> "deleteSlot", entreprise_id |-> CHOOSE e \in rows : TRUE,
                     id |-> id, user |-> user])
  /\ UNCHANGED <<office, entreprise, stripeSub, stripeCustomers, now>>

\* the delete of deleteSlot answers
DeleteSlotWrite(p) ==
  /\ pc[p] = "ds_delete"
  /\ \/ /\ Finish(p, Refused(500, "delete"))
        /\ UNCHANGED slots
     \/ /\ slots' = slots \ SlotsOf(loc[p].id, loc[p].entreprise_id)
        /\ Finish(p, [kind |-> "success", op |-> "deleteSlot"])
  /\ UNCHANGED <<client_contacts, subscriptionStore, missions, factures, unavailabilities,
                 entreprise, stripeSub, stripeCustomers, now>>

\* the select of listSlots: each row with the status of its mission joined
Joined(r) ==
  r @@ [mission_status |-> IF r.mission_id \in DOMAIN missions
                             THEN missions[r.mission_id].status ELSE NULL]

\* .order('start', { ascending: true }) of a set of rows
RECURSIVE OrderByStart(_)
OrderByStart(rows) ==
  IF rows = {} THEN <<>>
  ELSE LET first == CHOOSE r \in rows : \A o \in rows :
                      \/ DateGetTime(r.start) < DateGetTime(o.start)
                      \/ /\ DateGetTime(r.start) = DateGetTime(o.start)
                         /\ r.id <= o.id
       IN <<first>> \o OrderByStart(rows \ {first})

\* query parameters of GET /entreprises/:ref/slots
SlotParams ==
  {[missionId |-> 0, from |-> NoDate, to |-> NoDate],
   [missionId |-> 2, from |-> NoDate, to |-> NoDate],
   [missionId |-> 0, from |-> Hour(1), to |-> NoDate],
   [missionId |-> 0, from |-> NoDate, to |-> Hour(1)]}

\* the rows the select of listSlots returns for a company and parameters
SelectSlots(e, params) ==
  {Joined(r) : r \in
     {r \in slots :
        /\ r.entreprise_id = e
        /\ params.missionId # 0 => r.mission_id = params.missionId
        /\ Truthy(params.from) => DateGetTime(r.start) >= DateGetTime(params.from)
        /\ Truthy(params.to) => DateGetTime(r.end) <= DateGetTime(params.to)}}

\* PublicSlot, had it required a mission
PublicSlotLinked(r) ==
  r.mission_status \in {"validated", "paid", "completed"}

\* the filter of listSlots for a caller who is neither owner nor admin
PublicSlot(r) ==
  \/ r.mission_id = 0
  \/ r.mission_status \in {"validated", "paid", "completed"}

\* the status_slot the owner's view adds to a row
StatusSlot(r) ==
  r @@ [status_slot |-> IF r.mission_id # 0 /\ r.mission_status \in {"proposed", "refused"}
                          THEN "pending" ELSE "active"]

\* SlotsService.listSlots up to its select
listSlots(p, ref, user, params) ==
  /\ pc[p] = "idle"
  /\ \E answer \in {"ok", "error"} :
       LET rows == IF answer = "error" THEN {} ELSE findEntreprise(ref)
       IN IF rows = {} THEN Finish(p, Refused(404, "entreprise"))
          ELSE Goto(p, "ls_select",
                    [k |-> "listSlots", entreprise_id |-> CHOOSE e \in rows : TRUE,
                     row |-> entreprise[CHOOSE e \in rows : TRUE],
                     user |-> user, params |-> params])
  /\ UNCHANGED <<office, entreprise, stripeSub, stripeCustomers, now>>

\* the select of listSlots answers
ListSlotsSelect(p) ==
  /\ pc[p] = "ls_select"
  /\ \E answer \in {"ok", "error"} :
       LET data == SelectSlots(loc[p].entreprise_id, loc[p].params)
           canAccess == /\ loc[p].user # NoUser
                        /\ canAccessEntreprise(loc[p].user, loc[p].row)
       IN IF answer = "error" THEN Finish(p, Refused(500, "select"))
          ELSE IF ~canAccess
            THEN Finish(p, [kind |-> "slots", public |-> TRUE,
                            slots |-> OrderByStart({r \in data : PublicSlot(r)})])
          ELSE IF ~assertActiveSubscription(loc[p].row, now)
            THEN Finish(p, Refused(403, "subscription"))
          ELSE Finish(p, [kind |-> "slots", public |-> FALSE,
                          slots |-> OrderByStart({StatusSlot(r) : r \in data})])
  /\ UNCHANGED <<office, entreprise, stripeSub, stripeCustomers, now>>

\* ------------------------------------------------------------------------
\* UnavailabilitiesService
\* ------------------------------------------------------------------------
\* a date column 'YYYY-MM-DD' is the number of its day; null is NoDay
NoDay == 0 - 1

\* new Date('YYYY-MM-DD').getTime(): midnight UTC of the day
Midnight(day) == day * HalfDaysPerDay

\* date.toISOString().split('T')[0]: the day of an instant
DayOf(t) == t \div HalfDaysPerDay

\* Date.prototype.getUTCDay
getUTCDay(t) == (DayOf(t) + EpochWeekday) % DaysPerWeek

\* Date.prototype.getUTCDate, for the instants of January 1970
getUTCDate(t) == DayOf(t) + 1

\* a row of table unavailabilities
UnavailabilityRow(id, ent, type, startDate, recurrenceEnd, weekday, exceptions) ==
  [id |-> id, entreprise_id |-> ent, recurrence_type |-> type,
   start_date |-> startDate, recurrence_end |-> recurrenceEnd,
   weekday |-> weekday, exceptions |-> exceptions]

\* case 'weekly' of expandRecurrences
Weekly(item, cursor, startRec, endRec) ==
  cursor >= startRec /\ cursor <= endRec /\ getUTCDay(cursor) = item.weekday

\* Excepted, had it matched the weekday of an exception
ExceptedWeekday(item, iso) ==
  \E x \in item.exceptions : getUTCDay(Midnight(x)) = getUTCDay(Midnight(iso))

\* exceptions.includes(iso)
Excepted(item, iso) == iso \in item.exceptions

\* the loop of expandRecurrences over one item, from the cursor on
RECURSIVE ExpandFrom(_, _, _)
ExpandFrom(item, cursor, to) ==
  IF ~(cursor <= to) THEN <<>>
  ELSE LET iso == DayOf(cursor)
           startRec == Midnight(item.start_date)
           endRec == IF item.recurrence_end # NoDay
                       THEN Midnight(item.recurrence_end) ELSE Midnight(Date2100)
           valid == CASE item.recurrence_type = "none" -> iso = item.start_date
                      [] item.recurrence_type = "daily" ->
                           cursor >= startRec /\ cursor <= endRec
                      [] item.recurrence_type = "weekly" ->
                           Weekly(item, cursor, startRec, endRec)
                      [] item.recurrence_type = "monthly" ->
                           /\ cursor >= startRec /\ cursor <= endRec
                           /\ getUTCDate(cursor) = getUTCDate(startRec)
                      [] OTHER -> FALSE
       IN (IF valid /\ ~Excepted(item, iso)
             THEN <<[item EXCEPT !.start_date = iso]>> ELSE <<>>)
          \o ExpandFrom(item, cursor + HalfDaysPerDay, to)

\* the rows of a selection in the order the database returns them
RECURSIVE ById(_)
ById(rows) ==
  IF rows = {} THEN <<>>
  ELSE LET first == CHOOSE r \in rows : \A o \in rows : r.id <= o.id
       IN <<first>> \o ById(rows \ {first})

\* UnavailabilitiesService.expandRecurrences
RECURSIVE expandRecurrences(_, _, _)
expandRecurrences(items, from, to) ==
  IF items = <<>> THEN <<>>
  ELSE LET item == Head(items)
           startRec == Midnight(item.start_date)
           endRec == IF item.recurrence_end # NoDay
                       THEN Midnight(item.recurrence_end) ELSE Midnight(Date2100)
       IN (IF endRec < from \/ startRec > to THEN <<>>
           ELSE ExpandFrom(item, from, to))
          \o expandRecurrences(Tail(items), from, to)

\* UnavailabilitiesService.listUnavailabilities up to its select
listUnavailabilities(p, ref, start, end, user) ==
  /\ pc[p] = "idle"
  /\ \E answer \in {"ok", "error"} :
       LET rows == IF answer = "error" THEN {} ELSE findEntreprise(ref)
       IN IF rows = {} THEN Finish(p, Refused(404, "entreprise"))
          ELSE Goto(p, "lu_select",
                    [k |-> "listUnavailabilities",
                     entreprise_id |-> CHOOSE e \in rows : TRUE,
                     start |-> start, end |-> end, user |-> user])
  /\ UNCHANGED <<office, entreprise, stripeSub, stripeCustomers, now>>

\* the select of listUnavailabilities answers; data, start and end are kept
\* beside the answer to state what the expansion made of them
ListUnavailabilitiesSelect(p) ==
  /\ pc[p] = "lu_select"
  /\ \E answer \in {"ok", "error"} :
       LET data == ById({r \in unavailabilities :
                           r.entreprise_id = loc[p].entreprise_id})
       IN IF answer = "error" THEN Finish(p, Refused(500, "select"))
          ELSE Finish(p, [kind |-> "unavailabilities",
                          unavailabilities |->
                            expandRecurrences(data, loc[p].start, loc[p].end),
                          data |-> data, start |-> loc[p].start, end |-> loc[p].end])
  /\ UNCHANGED <<office, entreprise, stripeSub, stripeCustomers, now>>

\* the id given to an inserted unavailability: the first one free
NextUnavailabilityId ==
  CHOOSE i \in 1..(MaxUnavailabilityId + 1) :
    /\ \A r \in unavailabilities : r.id # i
    /\ \A j \in 1..(i - 1) : \E r \in unavailabilities : r.id = j

\* bodies of POST /entreprises/:ref/unavailabilities; weekday NoDay is absent
UnavailabilityBodies ==
  {[start_time |-> "09:00", end_time |-> "10:00", start_date |-> 3,
    recurrence_type |-> "weekly", recurrence_end |-> NoDay, weekday |-> NoDay],
   [start_time |-> "09:00", end_time |-> "10:00", start_date |-> 3,
    recurrence_type |-> NULL, recurrence_end |-> NoDay, weekday |-> 1],
   [start_time |-> NULL, end_time |-> "10:00", start_date |-> 3,
    recurrence_type |-> "daily", recurrence_end |-> NoDay, weekday |-> NoDay],
   [start_time |-> "09:00", end_time |-> "10:00", start_date |-> NoDay,
    recurrence_type |-> "daily", recurrence_end |-> NoDay, weekday |-> NoDay]}

\* UnavailabilitiesService.createUnavailability up to its insert
createUnavailability(p, ref, body, user) ==
  /\ pc[p] = "idle"
  /\ \E answer \in {"ok", "error"} :
       LET rows == IF answer = "error" THEN {} ELSE findEntreprise(ref)
           refusal == Gate(user, rows, now)
       IN IF refusal # Nothing THEN Finish(p, refusal)
          ELSE IF body.start_time = NULL \/ body.end_time = NULL
                  \/ body.start_date = NoDay
            THEN Finish(p, Refused(400, "required") @@ [user |-> user])
          ELSE Goto(p, "cu_insert",
                    [k |-> "createUnavailability",
                     entreprise_id |-> CHOOSE e \in rows : TRUE,
                     body |-> body, user |-> user])
  /\ UNCHANGED <<office, entreprise, stripeSub, stripeCustomers, now>>

\* the insert of createUnavailability answers
CreateUnavailabilityInsert(p) ==
  /\ pc[p] = "cu_insert"
  /\ \/ /\ Finish(p, Refused(500, "insert"))
        /\ UNCHANGED unavailabilities
     \/ /\ NextUnavailabilityId <= MaxUnavailabilityId
        /\ LET body == loc[p].body
               row == UnavailabilityRow(
                        NextUnavailabilityId, loc[p].entreprise_id,
                        IF body.recurrence_type # NULL
                          THEN body.recurrence_type ELSE "none",
                        body.start_date, body.recurrence_end,
                        IF body.weekday # NoDay THEN body.weekday
                          ELSE getUTCDay(Midnight(body.start_date)),
                        {})
           IN /\ unavailabilities' = unavailabilities \cup {row}
              /\ Finish(p, [kind |-> "unavailability",
                            op |-> "createUnavailability", unavailability |-> row])
  /\ UNCHANGED <<client_contacts, subscriptionStore, slots, missions, factures,
                 entreprise, stripeSub, stripeCustomers, now>>

\* bodies of PUT /entreprises/:ref/unavailabilities/:id
UnavailabilityUpdates ==
  {[recurrence_end |-> 10], [weekday |-> 2]}

\* UnavailabilitiesService.updateUnavailability up to its update
updateUnavailability(p, ref, id, updates, user) ==
  /\ pc[p] = "idle"
  /\ \E answer \in {"ok", "error"} :
       LET rows == IF answer = "error" THEN {} ELSE findEntreprise(ref)
           refusal == Gate(user, rows, now)
       IN IF refusal # Nothing THEN Finish(p, refusal)
          ELSE Goto(p, "uu_update",
                    [k |-> "updateUnavailability",
                     entreprise_id |-> CHOOSE e \in rows : TRUE,
                     id |-> id, updates |-> updates, user |-> user])
  /\ UNCHANGED <<office, entreprise, stripeSub, stripeCustomers, now>>

\* the rows .eq('id', id).eq('entreprise_id', entreprise.id) selects
UnavailabilitiesOf(id, e) ==
  {r \in unavailabilities : r.id = id /\ r.entreprise_id = e}

\* the update of updateUnavailability answers; .single() errors on no row
UpdateUnavailabilityWrite(p) ==
  /\ pc[p] = "uu_update"
  /\ \E answer \in {"ok", "error"} :
       LET target == UnavailabilitiesOf(loc[p].id, loc[p].entreprise_id)
       IN IF answer = "error" \/ target = {}
            THEN /\ Finish(p, Refused(500, "update"))
                 /\ UNCHANGED unavailabilities
            ELSE LET row == Patch(CHOOSE r \in target : TRUE, loc[p].updates)
                 IN /\ unavailabilities' = (unavailabilities \ target) \cup {row}
                    /\ Finish(p, [kind |-> "unavailability",
                                  op |-> "updateUnavailability",
                                  unavailability |-> row])
  /\ UNCHANGED <<client_contacts, subscriptionStore, slots, missions, factures,
                 entreprise, stripeSub, stripeCustomers, now>>

\* UnavailabilitiesService.deleteUnavailability up to its first query;
\* date NoDay is a request without ?date
deleteUnavailability(p, ref, id, date, user) ==
  /\ pc[p] = "idle"
  /\ \E answer \in {"ok", "error"} :
       LET rows == IF answer = "error" THEN {} ELSE findEntreprise(ref)
           refusal == Gate(user, rows, now)
           l == [k |-> "deleteUnavailability",
                 entreprise_id |-> CHOOSE e \in rows : TRUE,
                 id |-> id, date |-> date, user |-> user, exceptions |-> {}]
       IN IF refusal # Nothing THEN Finish(p, refusal)
          ELSE IF date # NoDay THEN Goto(p, "du_select", l)
          ELSE Goto(p, "du_delete", l)
  /\ UNCHANGED <<office, entreprise, stripeSub, stripeCustomers, now>>

\* the select of the exceptions answers: by id alone, .single() errors on no row
DeleteUnavailabilitySelect(p) ==
  /\ pc[p] = "du_select"
  /\ \E answer \in {"ok", "error"} :
       LET found == {r \in unavailabilities : r.id = loc[p].id}
       IN IF answer = "error" \/ found = {}
            THEN Finish(p, Refused(500, "select"))
            ELSE Goto(p, "du_update",
                      [loc[p] EXCEPT !.exceptions =
                         (CHOOSE r \in found : TRUE).exceptions \cup {loc[p].date}])
  /\ UNCHANGED <<office, entreprise, stripeSub, stripeCustomers, now>>

\* the update of the exceptions answers; its error is not looked at
DeleteUnavailabilityUpdate(p) ==
  /\ pc[p] = "du_update"
  /\ \E answer \in {"ok", "error"} :
       LET target == UnavailabilitiesOf(loc[p].id, loc[p].entreprise_id)
       IN /\ unavailabilities' =
               IF answer = "error" THEN unavailabilities
               ELSE (unavailabilities \ target)
                    \cup {[r EXCEPT !.exceptions = loc[p].exceptions] : r \in target}
          /\ Finish(p, [kind |-> "success", op |-> "deleteUnavailability",
                        partial |-> TRUE, update |-> answer])
  /\ UNCHANGED <<client_contacts, subscriptionStore, slots, missions, factures,
                 entreprise, stripeSub, stripeCustomers, now>>

\* the delete of the whole unavailability answers
DeleteUnavailabilityDelete(p) ==
  /\ pc[p] = "du_delete"
  /\ \/ /\ Finish(p, Refused(500, "delete"))
        /\ UNCHANGED unavailabilities
     \/ /\ unavailabilities' =
             unavailabilities \ UnavailabilitiesOf(loc[p].id, loc[p].entreprise_id)
        /\ Finish(p, [kind |-> "success", op |-> "deleteUnavailability",
                      partial |-> FALSE])
  /\ UNCHANGED <<client_contacts, subscriptionStore, slots, missions, factures,
                 entreprise, stripeSub, stripeCustomers, now>>

\* ------------------------------------------------------------------------
\* FacturesService
\* ------------------------------------------------------------------------
\* a numeric column or input that is null / undefined
NoAmount == 0 - 1

ENTREPRISE_ROLES == {"freelance", "entreprise", "admin"}

\* a row of table factures; mission_id 0 is null
FactureRow(id, ent, mission, status, hours, rate, ht, ttc, tva) ==
  [id |-> id, entreprise_id |-> ent, mission_id |-> mission, status |-> status,
   hours |-> hours, rate |-> rate, montant_ht |-> ht, montant_ttc |-> ttc,
   tva |-> tva]

\* inputs of createFacture (FactureCreateDto), generatePaymentLink unset
FactureInputs ==
  {[entreprise_id |-> ref, mission_id |-> 1, status |-> "pending",
    hours |-> 9, rate |-> 9, montant_ht |-> 9,
    montant_ttc |-> NoAmount, tva |-> NoAmount] : ref \in {NULL, " 1", "2"}}
  \cup
  {[entreprise_id |-> NULL, mission_id |-> m, status |-> "pending",
    hours |-> NoAmount, rate |-> NoAmount, montant_ht |-> NoAmount,
    montant_ttc |-> 50, tva |-> 5] : m \in {2, 7}}
  \cup
  {[entreprise_id |-> NULL, mission_id |-> 0, status |-> "paid",
    hours |-> 3, rate |-> 10, montant_ht |-> 30,
    montant_ttc |-> 30, tva |-> NoAmount]}

\* FacturesService.createFacture up to its first query after loadEntrepriseForUser
createFacture(p, input, user) ==
  /\ pc[p] = "idle"
  /\ \E answer \in {"ok", "error"} :
       IF user = NoUser THEN Finish(p, Refused(401, "auth"))
       ELSE IF user.role \notin ENTREPRISE_ROLES THEN Finish(p, Refused(403, "role"))
       ELSE LET resolvedRef == resolveEntrepriseRefOf(user, input.entreprise_id)
                rows == IF answer = "error" THEN {} ELSE findEntreprise(resolvedRef)
                refusal == Gate(user, rows, now)
                e == CHOOSE e \in rows : TRUE
                l == [k |-> "createFacture", entreprise_id |-> e, user |-> user,
                      input |-> input, hours |-> 0,
                      payload |-> FactureRow(0, e, input.mission_id, input.status,
                                             input.hours, input.rate, input.montant_ht,
                                             input.montant_ttc, input.tva)]
            IN IF resolvedRef = NULL THEN Finish(p, Refused(400, "ref"))
               ELSE IF refusal # Nothing THEN Finish(p, refusal)
               ELSE IF input.mission_id # 0 THEN Goto(p, "cf_slots", l)
               ELSE Goto(p, "cf_insert", l)
  /\ UNCHANGED <<office, entreprise, stripeSub, stripeCustomers, now>>

\* the loop of computeFromMission: the hours of the slots that end after they start
RECURSIVE TotalHours(_)
TotalHours(rows) ==
  IF rows = {} THEN 0
  ELSE LET slot == CHOOSE r \in rows : TRUE
           start == DateGetTime(slot.start)
           end == DateGetTime(slot.end)
       IN (IF /\ Truthy(slot.start) /\ Truthy(slot.end)
              /\ DateIsFinite(slot.start) /\ DateIsFinite(slot.end)
              /\ end > start
             THEN (end - start) \div MsPerHour ELSE 0)
          + TotalHours(rows \ {slot})

\* the select of the mission's slots answers computeFromMission
CreateFactureSlots(p) ==
  /\ pc[p] = "cf_slots"
  /\ \E answer \in {"ok", "error"} :
       IF answer = "error" THEN Finish(p, Refused(500, "slots"))
       ELSE Goto(p, "cf_rate",
                 [loc[p] EXCEPT !.hours =
                    TotalHours({r \in slots : r.mission_id = loc[p].payload.mission_id})])
  /\ UNCHANGED <<office, entreprise, stripeSub, stripeCustomers, now>>

\* PayloadFromMission, had it kept the figures of the input
PayloadFromInput(payload, hours, rate) ==
  LET ht == hours * rate
      tva == IF payload.tva # NoAmount THEN payload.tva ELSE 0
  IN [payload EXCEPT
        !.hours = IF payload.hours # NoAmount THEN payload.hours ELSE hours,
        !.rate = IF payload.rate # NoAmount THEN payload.rate ELSE rate,
        !.montant_ht = IF payload.montant_ht # NoAmount THEN payload.montant_ht ELSE ht,
        !.tva = tva,
        !.montant_ttc = IF tva > 0 THEN ht + tva
                        ELSE IF payload.montant_ttc # NoAmount
                          THEN payload.montant_ttc ELSE ht]

\* createFacture: the payload once computeFromMission returned hours and rate
PayloadFromMission(payload, hours, rate) ==
  LET ht == hours * rate
      tva == IF payload.tva # NoAmount THEN payload.tva ELSE 0
  IN [payload EXCEPT
        !.hours = hours,
        !.rate = rate,
        !.montant_ht = ht,
        !.tva = tva,
        !.montant_ttc = IF tva > 0 THEN ht + tva
                        ELSE IF payload.montant_ttc # NoAmount
                          THEN payload.montant_ttc ELSE ht]

\* findEntreprise answers computeFromMission: taux_horaire ?? 0
CreateFactureRate(p) ==
  /\ pc[p] = "cf_rate"
  /\ \E answer \in {"ok", "error"} :
       LET rows == IF answer = "error" THEN {}
                   ELSE findEntreprise(ToString(loc[p].entreprise_id))
           taux == entreprise[CHOOSE e \in rows : TRUE].taux_horaire
           rate == IF taux # NoAmount THEN taux ELSE 0
       IN IF rows = {} THEN Finish(p, Refused(404, "entreprise"))
          ELSE Goto(p, "cf_insert",
                    [loc[p] EXCEPT !.payload =
                       PayloadFromMission(loc[p].payload, loc[p].hours, rate)])
  /\ UNCHANGED <<office, entreprise, stripeSub, stripeCustomers, now>>

\* the id given to an inserted facture: the first one free
NextFactureId ==
  CHOOSE i \in 1..(MaxFactureId + 1) :
    /\ \A r \in factures : r.id # i
    /\ \A j \in 1..(i - 1) : \E r \in factures : r.id = j

\* the insert of createFacture answers: an error, a duplicate numero, or the row
CreateFactureInsert(p) ==
  /\ pc[p] = "cf_insert"
  /\ \E answer \in {"ok", "error", "23505"} :
       IF answer = "23505" THEN Finish(p, Refused(400, "numero")) /\ UNCHANGED factures
       ELSE IF answer = "error"
               \/ (loc[p].payload.mission_id # 0
                   /\ loc[p].payload.mission_id \notin DOMAIN missions)
         THEN Finish(p, Refused(500, "insert")) /\ UNCHANGED factures
       ELSE /\ NextFactureId <= MaxFactureId
            /\ factures' = factures \cup {[loc[p].payload EXCEPT !.id = NextFactureId]}
            /\ Goto(p, "cf_fetch", [loc[p] EXCEPT !.payload.id = NextFactureId])
  /\ UNCHANGED <<client_contacts, subscriptionStore, slots, missions, unavailabilities,
                 entreprise, stripeSub, stripeCustomers, now>>

\* fetchFacture: the response it ends the request with, or Nothing when found
FetchFailure(answer, id) ==
  IF answer = "error" THEN Refused(500, "fetch")
  ELSE IF \A f \in factures : f.id # id THEN Refused(404, "facture")
  ELSE Nothing

\* fetchFacture answers createFacture; a failed notification is only logged
CreateFactureFetch(p) ==
  /\ pc[p] = "cf_fetch"
  /\ \E answer \in {"ok", "error"} :
       LET failure == FetchFailure(answer, loc[p].payload.id)
       IN IF failure # Nothing THEN Finish(p, failure)
          ELSE Finish(p, [kind |-> "facture", op |-> "createFacture",
                          input |-> loc[p].input,
                          facture |-> CHOOSE f \in factures : f.id = loc[p].payload.id])
  /\ UNCHANGED <<office, entreprise, stripeSub, stripeCustomers, now>>

\* inputs of updateFacture (FactureUpdateDto): the fields the request names
FactureUpdates ==
  {[status |-> "paid"], [status |-> "paid", mission_id |-> 2],
   [mission_id |-> 2], [status |-> "pending", mission_id |-> 1],
   [mission_id |-> 7]}

\* FacturesService.updateFacture up to the answer of fetchFacture
updateFacture(p, id, input, user) ==
  /\ pc[p] = "idle"
  /\ \E answer \in {"ok", "error"} :
       LET failure == FetchFailure(answer, id)
       IN IF user = NoUser THEN Finish(p, Refused(401, "auth"))
          ELSE IF failure # Nothing THEN Finish(p, failure)
          ELSE IF user.role \notin ENTREPRISE_ROLES
            THEN Finish(p, Refused(403, "role"))
          ELSE Goto(p, "uf_entreprise",
                    [k |-> "updateFacture", id |-> id, input |-> input,
                     user |-> user, facture |-> CHOOSE f \in factures : f.id = id])
  /\ UNCHANGED <<office, entreprise, stripeSub, stripeCustomers, now>>

\* findEntreprise answers updateFacture: access and subscription are checked
UpdateFactureEntreprise(p) ==
  /\ pc[p] = "uf_entreprise"
  /\ \E answer \in {"ok", "error"} :
       LET rows == IF answer = "error" THEN {}
                   ELSE findEntreprise(ToString(loc[p].facture.entreprise_id))
           refusal == Gate(loc[p].user, rows, now)
       IN IF refusal # Nothing THEN Finish(p, refusal)
          ELSE Goto(p, "uf_update", loc[p])
  /\ UNCHANGED <<office, entreprise, stripeSub, stripeCustomers, now>>

\* { ...rest, mission_id: mission_id ?? null }
UpdatePayload(input) ==
  IF "mission_id" \in DOMAIN input THEN input ELSE input @@ [mission_id |-> 0]

\* the mission updateFacture marks paid: facture.mission_id ?? mission_id is
\* tested, mission_id ?? facture.mission_id is updated; 0 when none
MissionToUpdate(input, facture) ==
  IF "status" \in DOMAIN input /\ input.status = "paid"
    THEN IF "mission_id" \in DOMAIN input /\ input.mission_id # 0
           THEN input.mission_id ELSE facture.mission_id
    ELSE 0

\* the update of the facture answers updateFacture
UpdateFactureWrite(p) ==
  /\ pc[p] = "uf_update"
  /\ \E answer \in {"ok", "error", "23505"} :
       LET payload == UpdatePayload(loc[p].input)
           target == {f \in factures : /\ f.id = loc[p].id
                                       /\ f.entreprise_id = loc[p].facture.entreprise_id}
       IN IF answer = "23505"
            THEN Finish(p, Refused(400, "numero")) /\ UNCHANGED factures
          ELSE IF answer = "error"
                  \/ (payload.mission_id # 0 /\ payload.mission_id \notin DOMAIN missions)
            THEN Finish(p, Refused(500, "update")) /\ UNCHANGED factures
          ELSE /\ factures' = (factures \ target) \cup {Patch(f, payload) : f \in target}
               /\ IF MissionToUpdate(loc[p].input, loc[p].facture) # 0
                    THEN Goto(p, "uf_mission", loc[p])
                    ELSE Goto(p, "uf_fetch", loc[p])
  /\ UNCHANGED <<client_contacts, subscriptionStore, slots, missions, unavailabilities,
                 entreprise, stripeSub, stripeCustomers, now>>

\* a table of missions with the status of the rows of one id replaced
MissionsUpdated(id, status) ==
  [m \in DOMAIN missions |->
     IF m = id THEN [missions[m] EXCEPT !.status = status] ELSE missions[m]]

\* the update of the mission answers updateFacture; its error is not looked at
UpdateFactureMission(p) ==
  /\ pc[p] = "uf_mission"
  /\ \E answer \in {"ok", "error"} :
       missions' = IF answer = "error" THEN missions
                   ELSE MissionsUpdated(MissionToUpdate(loc[p].input, loc[p].facture),
                                        "paid")
  /\ Goto(p, "uf_fetch", loc[p])
  /\ UNCHANGED <<client_contacts, subscriptionStore, slots, factures, unavailabilities,
                 entreprise, stripeSub, stripeCustomers, now>>

\* fetchFacture answers updateFacture
UpdateFactureFetch(p) ==
  /\ pc[p] = "uf_fetch"
  /\ \E answer \in {"ok", "error"} :
       LET failure == FetchFailure(answer, loc[p].id)
       IN IF failure # Nothing THEN Finish(p, failure)
          ELSE Finish(p, [kind |-> "facture", op |-> "updateFacture",
                          input |-> loc[p].input,
                          facture |-> CHOOSE f \in factures : f.id = loc[p].id])
  /\ UNCHANGED <<office, entreprise, stripeSub, stripeCustomers, now>>

\* FacturesService.listFactures up to its first query; the rows come back
\* as a set, their order by date_emission left out
listFactures(p, entrepriseRef, user, missionId) ==
  /\ pc[p] = "idle"
  /\ \E answer \in {"ok", "error"} :
       IF user = NoUser THEN Finish(p, Refused(401, "auth"))
       ELSE IF user.role = "client"
         THEN Goto(p, "lf_client", [k |-> "listFactures", user |-> user,
                                    missionId |-> missionId, entreprise_id |-> 0])
       ELSE IF user.role \notin ENTREPRISE_ROLES THEN Finish(p, Refused(403, "role"))
       ELSE LET resolvedRef == resolveEntrepriseRefOf(user, entrepriseRef)
                rows == IF answer = "error" THEN {} ELSE findEntreprise(resolvedRef)
                refusal == Gate(user, rows, now)
            IN IF resolvedRef = NULL THEN Finish(p, Refused(400, "ref"))
               ELSE IF refusal # Nothing THEN Finish(p, refusal)
               ELSE Goto(p, "lf_select",
                         [k |-> "listFactures", user |-> user, missionId |-> missionId,
                          entreprise_id |-> CHOOSE e \in rows : TRUE])
  /\ UNCHANGED <<office, entreprise, stripeSub, stripeCustomers, now>>

\* the select of listFactures answers
ListFacturesSelect(p) ==
  /\ pc[p] = "lf_select"
  /\ \E answer \in {"ok", "error"} :
       IF answer = "error" THEN Finish(p, Refused(500, "select"))
       ELSE Finish(p, [kind |-> "factures", op |-> "listFactures",
                       factures |->
                         {f \in factures :
                            /\ f.entreprise_id = loc[p].entreprise_id
                            /\ loc[p].missionId # 0 => f.mission_id = loc[p].missionId}])
  /\ UNCHANGED <<office, entreprise, stripeSub, stripeCustomers, now>>

\* the select of listFacturesForClient answers: the filter on the embedded
\* mission empties the embedding of the other rows, it removes no row
ListFacturesClient(p) ==
  /\ pc[p] = "lf_client"
  /\ \E answer \in {"ok", "error"} :
       IF answer = "error" THEN Finish(p, Refused(500, "select"))
       ELSE Finish(p, [kind |-> "factures", op |-> "listFacturesForClient",
                       factures |->
                         {f \in factures :
                            loc[p].missionId # 0 => f.mission_id = loc[p].missionId}])
  /\ UNCHANGED <<office, entreprise, stripeSub, stripeCustomers, now>>

\* FacturesService.sendFacture up to the answer of fetchFacture
sendFacture(p, id, user) ==
  /\ pc[p] = "idle"
  /\ \E answer \in {"ok", "error"} :
       LET failure == FetchFailure(answer, id)
       IN IF user = NoUser THEN Finish(p, Refused(401, "auth"))
          ELSE IF failure # Nothing THEN Finish(p, failure)
          ELSE Goto(p, "sf_entreprise",
                    [k |-> "sendFacture", id |-> id, user |-> user,
                     facture |-> CHOOSE f \in factures : f.id = id])
  /\ UNCHANGED <<office, entreprise, stripeSub, stripeCustomers, now>>

\* findEntreprise answers sendFacture: access and subscription are checked
SendFactureEntreprise(p) ==
  /\ pc[p] = "sf_entreprise"
  /\ \E answer \in {"ok", "error"} :
       LET rows == IF answer = "error" THEN {}
                   ELSE findEntreprise(ToString(loc[p].facture.entreprise_id))
           refusal == Gate(loc[p].user, rows, now)
       IN IF refusal # Nothing THEN Finish(p, refusal)
          ELSE Goto(p, "sf_send", loc[p])
  /\ UNCHANGED <<office, entreprise, stripeSub, stripeCustomers, now>>

\* sendFactureNotification answers sendFacture
SendFactureNotify(p) ==
  /\ pc[p] = "sf_send"
  /\ \E answer \in {"ok", "error"} :
       IF answer = "error" THEN Finish(p, AllExceptionsFilter(RawError) @@ [why |-> "send"])
       ELSE Finish(p, [kind |-> "sent", op |-> "sendFacture"])
  /\ UNCHANGED <<office, entreprise, stripeSub, stripeCustomers, now>>

\* ------------------------------------------------------------------------
\* PaymentsService.handleWebhook, for sessions of mode payment
\* ------------------------------------------------------------------------
\* events of the payments webhook; facture_id 0 is metadata without facture_id
PaymentEvents ==
  {[type |-> "checkout.session.completed", mode |-> "payment", facture_id |-> f] :
     f \in {0, 1, 9}}
  \cup {[type |-> "payment_intent.payment_failed", mode |-> NULL, facture_id |-> f] :
          f \in {0, 1}}
  \cup {[type |-> "charge.refunded", mode |-> NULL, facture_id |-> 1]}

\* PaymentsController.handleWebhook and PaymentsService.handleWebhook up to
\* the first query
paymentsWebhook(p, ev, signature) ==
  /\ pc[p] = "idle"
  /\ LET l == [k |-> "paymentsWebhook", ev |-> ev, mission_id |-> 0]
     IN IF Missing(signature)
          THEN Finish(p, AllExceptionsFilter(RawError) @@ [why |-> "signature"])
        ELSE IF ~constructEvent(ev, signature, STRIPE_WEBHOOK_SECRET)
          THEN Finish(p, Refused(401, "signature"))
        ELSE IF ev.type = "checkout.session.completed" /\ ev.facture_id # 0
          THEN Goto(p, "pw_select", l)
        ELSE IF ev.type = "payment_intent.payment_failed" /\ ev.facture_id # 0
          THEN Goto(p, "pw_cancel", l)
        ELSE Finish(p, [kind |-> "received", op |-> "paymentsWebhook"])
  /\ UNCHANGED <<office, entreprise, stripeSub, stripeCustomers, now>>

\* the select of the facture answers the webhook
PaymentsWebhookSelect(p) ==
  /\ pc[p] = "pw_select"
  /\ \E answer \in {"ok", "error"} :
       LET found == {f \in factures : f.id = loc[p].ev.facture_id}
       IN IF answer = "error" \/ found = {}
            THEN Finish(p, Refused(404, "facture"))
            ELSE Goto(p, "pw_paid",
                      [loc[p] EXCEPT !.mission_id = (CHOOSE f \in found : TRUE).mission_id])
  /\ UNCHANGED <<office, entreprise, stripeSub, stripeCustomers, now>>

\* factures with the status of the rows of one id replaced
FacturesUpdated(id, status) ==
  {IF f.id = id THEN [f EXCEPT !.status = status] ELSE f : f \in factures}

\* the update of the facture to paid answers; its error is not looked at
PaymentsWebhookPaid(p) ==
  /\ pc[p] = "pw_paid"
  /\ \E answer \in {"ok", "error"} :
       factures' = IF answer = "error" THEN factures
                   ELSE FacturesUpdated(loc[p].ev.facture_id, "paid")
  /\ IF loc[p].mission_id # 0 THEN Goto(p, "pw_mission", loc[p])
     ELSE Goto(p, "pw_notify", loc[p])
  /\ UNCHANGED <<client_contacts, subscriptionStore, slots, missions, unavailabilities,
                 entreprise, stripeSub, stripeCustomers, now>>

\* the update of the mission to paid answers; its error is not looked at
PaymentsWebhookMission(p) ==
  /\ pc[p] = "pw_mission"
  /\ \E answer \in {"ok", "error"} :
       missions' = IF answer = "error" THEN missions
                   ELSE MissionsUpdated(loc[p].mission_id, "paid")
  /\ Goto(p, "pw_notify", loc[p])
  /\ UNCHANGED <<client_contacts, subscriptionStore, slots, factures, unavailabilities,
                 entreprise, stripeSub, stripeCustomers, now>>

\* notifyFactureCreated answers, or is not called for want of data.entreprise
PaymentsWebhookNotify(p) ==
  /\ pc[p] = "pw_notify"
  /\ \E answer \in {"ok", "error"} :
       IF answer = "error" THEN Finish(p, AllExceptionsFilter(RawError) @@ [why |-> "notify"])
       ELSE Finish(p, [kind |-> "received", op |-> "paymentsWebhook"])
  /\ UNCHANGED <<office, entreprise, stripeSub, stripeCustomers, now>>

\* the update of the facture to canceled answers; its error is not looked at
PaymentsWebhookCancel(p) ==
  /\ pc[p] = "pw_cancel"
  /\ \E answer \in {"ok", "error"} :
       factures' = IF answer = "error" THEN factures
                   ELSE FacturesUpdated(loc[p].ev.facture_id, "canceled")
  /\ Finish(p, [kind |-> "received", op |-> "paymentsWebhook"])
  /\ UNCHANGED <<client_contacts, subscriptionStore, slots, missions, unavailabilities,
                 entreprise, stripeSub, stripeCustomers, now>>

\* ------------------------------------------------------------------------
\* ClientContactsService
\* ------------------------------------------------------------------------
ContactRow(id, client, ent) == [id |-> id, client_id |-> client, entreprise_id |-> ent]

\* the rows of client_contacts of one client and one company
ContactsOf(client, ent) ==
  {r \in client_contacts : r.client_id = client /\ r.entreprise_id = ent}

NextContactId ==
  CHOOSE i \in 1..(MaxContactId + 1) :
    /\ \A r \in client_contacts : r.id # i
    /\ \A j \in 1..(i - 1) : \E r \in client_contacts : r.id = j

\* addContact up to its query of the existing contact
addContact(p, dto, user) ==
  /\ pc[p] = "idle"
  /\ IF user = NoUser THEN Finish(p, Refused(401, "auth"))
     ELSE IF user.role # "client" THEN Finish(p, Refused(403, "role"))
     ELSE IF dto.entreprise_id = 0 THEN Finish(p, Refused(400, "entreprise_id"))
     ELSE Goto(p, "ac_select", [k |-> "addContact", dto |-> dto, user |-> user])
  /\ UNCHANGED <<office, entreprise, stripeSub, stripeCustomers, now>>

\* the query of the existing contact answers: .maybeSingle() gives the row,
\* null for no row and an error for several; the error is not looked at
AddContactSelect(p) ==
  /\ pc[p] = "ac_select"
  /\ \E answer \in {"ok", "error"} :
       LET found == ContactsOf(loc[p].user.id, loc[p].dto.entreprise_id)
       IN IF answer = "ok" /\ Cardinality(found) = 1
            THEN Finish(p, [kind |-> "message", op |-> "addContact"])
            ELSE Goto(p, "ac_insert", loc[p])
  /\ UNCHANGED <<office, entreprise, stripeSub, stripeCustomers, now>>

\* the insert answers addContact: an error, or the row joined to its company
AddContactInsert(p) ==
  /\ pc[p] = "ac_insert"
  /\ \E answer \in {"ok", "error"} :
       IF answer = "error"
         THEN Finish(p, Refused(500, "insert")) /\ UNCHANGED client_contacts
         ELSE LET row == ContactRow(NextContactId, loc[p].user.id,
                                    loc[p].dto.entreprise_id)
              IN /\ Cardinality(client_contacts) < MaxContactId
                 /\ client_contacts' = client_contacts \cup {row}
                 /\ Goto(p, "ac_notify", loc[p] @@ [contact |-> row])
  /\ UNCHANGED <<subscriptionStore, slots, missions, factures, unavailabilities,
                 entreprise, stripeSub, stripeCustomers, now>>

\* notifyEntrepriseBookmarked answers addContact
AddContactNotify(p) ==
  /\ pc[p] = "ac_notify"
  /\ \/ Throw(p, FALSE, RawError)
     \/ Finish(p, [kind |-> "contact", op |-> "addContact",
                    contact |-> loc[p].contact])
  /\ UNCHANGED <<office, entreprise, stripeSub, stripeCustomers, now>>

Init ==
  /\ entreprise = InitialEntreprise
  /\ stripeSub = Sub("active", 1, "cus_A", "1", "monthly", STRIPE_PRICE_MONTHLY, NULL)
  /\ stripeCustomers = <<>>
  /\ now = 0
  /\ pc = [p \in Procs |-> "idle"]
  /\ loc = [p \in Procs |-> NoLoc]
  /\ resp = [p \in Procs |-> NoResp]
  /\ InitialOffice

\* webhook deliveries handled one at a time, the vendor changing meanwhile
Next ==
  \/ \E ev \in Events : webhook("p1", ev, Sign(ev, STRIPE_WEBHOOK_SECRET))
  \/ \E ev \in ForgedEvents : \E signature \in BadSignatures(ev) : webhook("p1", ev, signature)
  \/ CheckoutRetrieve("p1")
  \/ CheckoutSelect("p1")
  \/ InvoiceRetrieve("p1")
  \/ FindById("p1")
  \/ FindByCustomer("p1")
  \/ UpdateRow("p1")
  \/ VendorChange

Spec == Init /\ [][Next]_vars

\* the database and the vendor answer every call a handler awaits
Answered ==
  \/ CheckoutRetrieve("p1")
  \/ CheckoutSelect("p1")
  \/ InvoiceRetrieve("p1")
  \/ FindById("p1")
  \/ FindByCustomer("p1")
  \/ UpdateRow("p1")

SpecLive == Init /\ [][Next]_vars /\ WF_vars(Answered)

\* webhook deliveries about one company handled concurrently
NextRace ==
  \/ \E p \in Procs : \E ev \in RaceEvents : webhook(p, ev, Sign(ev, STRIPE_WEBHOOK_SECRET))
  \/ \E p \in Procs : FindById(p)
  \/ \E p \in Procs : FindByCustomer(p)
  \/ \E p \in Procs : UpdateRow(p)

SpecRace == Init /\ [][NextRace]_vars

\* ------------------------------------------------------------------------
\* Status queries over stored rows
\* ------------------------------------------------------------------------
\* values column subscription_status may hold
StoredStatuses == {NULL, "", "unpaid", "paused"} \cup AllowedStatuses

\* values column subscription_period_end may hold
StoredDates ==
  {NoDate} \cup {toISOString(s * MsPerSec) : s \in 0..MaxTime}

InitStatus ==
  /\ \E st \in StoredStatuses, pe \in StoredDates :
       entreprise = [InitialEntreprise EXCEPT ![1].subscription_status = st,
                                              ![1].subscription_period_end = pe]
  /\ stripeSub = Sub("active", 1, "cus_A", "1", "monthly", STRIPE_PRICE_MONTHLY, NULL)
  /\ stripeCustomers = <<>>
  /\ now = 0
  /\ pc = [p \in Procs |-> "idle"]
  /\ loc = [p \in Procs |-> NoLoc]
  /\ resp = [p \in Procs |-> NoResp]
  /\ InitialOffice

NextStatus ==
  \/ \E user \in Users : getStatus("p1", user)
  \/ Tick

SpecStatus == InitStatus /\ [][NextStatus]_vars

\* status queries over every value the text column subscription_period_end
\* can be read as: null, empty, unparseable or a timestamp
InitAgree ==
  /\ \E st \in StoredStatuses, pe \in StoredDates \cup {EmptyDate, BadDate} :
       entreprise = [InitialEntreprise EXCEPT ![1].subscription_status = st,
                                              ![1].subscription_period_end = pe]
  /\ stripeSub = Sub("active", 1, "cus_A", "1", "monthly", STRIPE_PRICE_MONTHLY, NULL)
  /\ stripeCustomers = <<>>
  /\ now = 0
  /\ pc = [p \in Procs |-> "idle"]
  /\ loc = [p \in Procs |-> NoLoc]
  /\ resp = [p \in Procs |-> NoResp]
  /\ InitialOffice

SpecAgree == InitAgree /\ [][NextStatus]_vars

\* ------------------------------------------------------------------------
\* The browser: pages refreshing the store while the guard handles navigations
\* ------------------------------------------------------------------------
InitFront ==
  /\ \E st \in {"active", "canceled"} :
       entreprise = [InitialEntreprise EXCEPT ![1].subscription_status = st,
                                              ![1].subscription_plan = "monthly"]
  /\ stripeSub = Sub("active", 1, "cus_A", "1", "monthly", STRIPE_PRICE_MONTHLY, NULL)
  /\ stripeCustomers = <<>>
  /\ now = 0
  /\ pc = [p \in Procs |-> "idle"]
  /\ loc = [p \in Procs |-> NoLoc]
  /\ resp = [p \in Procs |-> NoResp]
  /\ InitialOffice

NextFront ==
  \/ \E p \in Procs, force \in BOOLEAN : refresh(p, force)
  \/ \E p \in Procs : RefreshAnswer(p)
  \/ \E p \in Procs : reset(p)
  \/ \E p \in Procs, to \in Routes, user \in {u \in Users : u.id \in {"u1", "u3"}} \cup {NoUser} :
       beforeEach(p, to, user)

SpecFront == InitFront /\ [][NextFront]_vars

\* checkout requests handled concurrently
NextCheckout ==
  \/ \E p \in Procs : \E r \in CheckoutRequests : createCheckout(p, r.slug, r.dto, r.user)
  \/ \E p \in Procs : CheckoutLoad(p)
  \/ \E p \in Procs : CustomerCreate(p)
  \/ \E p \in Procs : CustomerSave(p)
  \/ \E p \in Procs : ReferralSave(p)
  \/ \E p \in Procs : SessionCreate(p)

SpecCheckout == Init /\ [][NextCheckout]_vars

\* ------------------------------------------------------------------------
\* The slots of a subscribed company: one owner, one stranger, one visitor
\* ------------------------------------------------------------------------
\* company 1 with a running subscription
SubscribedEntreprise ==
  [InitialEntreprise EXCEPT ![1].subscription_status = "active"]

\* the callers of the slots specification
Owner == CHOOSE u \in Users : u.id = "u1"
Stranger == CHOOSE u \in Users : u.id = "u2"

InitSlots ==
  /\ entreprise = SubscribedEntreprise
  /\ stripeSub = Sub("active", 1, "cus_A", "1", "monthly", STRIPE_PRICE_MONTHLY, NULL)
  /\ stripeCustomers = <<>>
  /\ now = 0
  /\ pc = [p \in Procs |-> "idle"]
  /\ loc = [p \in Procs |-> NoLoc]
  /\ resp = [p \in Procs |-> NoResp]
  /\ client_contacts = {}
  /\ subscriptionStore = InitialStore
  /\ slots = InitialSlots
  /\ \E st \in MissionStatuses :
       missions = [InitialMissions EXCEPT ![2].status = st]
  /\ factures = {}
  /\ unavailabilities = {}

NextSlots ==
  \/ \E body \in SlotBodies : createSlot("p1", "co1", body, Owner)
  \/ CreateSlotMission("p1")
  \/ CreateSlotInsert("p1")
  \/ \E ref \in {"co1", "2"}, id \in {1, 3}, updates \in SlotUpdates :
       updateSlot("p1", ref, id, updates, Owner)
  \/ UpdateSlotWrite("p1")
  \/ \E id \in {1, 2} : deleteSlot("p1", "co1", id, Owner)
  \/ DeleteSlotWrite("p1")
  \/ \E ref \in {"co1", "1", "nope"}, user \in {Owner, Stranger, NoUser},
        params \in SlotParams : listSlots("p1", ref, user, params)
  \/ ListSlotsSelect("p1")

SpecSlots == InitSlots /\ [][NextSlots]_vars

\* ------------------------------------------------------------------------
\* One recurring unavailability, its occurrences removed and listed
\* ------------------------------------------------------------------------
RecurrenceTypes == {"none", "daily", "weekly", "monthly"}

InitRecurrence ==
  /\ entreprise = SubscribedEntreprise
  /\ stripeSub = Sub("active", 1, "cus_A", "1", "monthly", STRIPE_PRICE_MONTHLY, NULL)
  /\ stripeCustomers = <<>>
  /\ now = 0
  /\ pc = [p \in Procs |-> "idle"]
  /\ loc = [p \in Procs |-> NoLoc]
  /\ resp = [p \in Procs |-> NoResp]
  /\ client_contacts = {}
  /\ subscriptionStore = InitialStore
  /\ slots = InitialSlots
  /\ missions = InitialMissions
  /\ factures = {}
  /\ \E type \in RecurrenceTypes, weekday \in 0..(DaysPerWeek - 1),
        recurrenceEnd \in {NoDay, MaxDay - 1} :
       unavailabilities =
         {UnavailabilityRow(1, 1, type, 0, recurrenceEnd, weekday, {})}

NextRecurrence ==
  \/ \E start \in {0, 1}, end \in {Midnight(MaxDay), Midnight(MaxDay) + 1} :
       listUnavailabilities("p1", "co1", start, end, NoUser)
  \/ ListUnavailabilitiesSelect("p1")
  \/ \E date \in {NoDay, 7, 8} : deleteUnavailability("p1", "co1", 1, date, Owner)
  \/ DeleteUnavailabilitySelect("p1")
  \/ DeleteUnavailabilityUpdate("p1")
  \/ DeleteUnavailabilityDelete("p1")

SpecRecurrence == InitRecurrence /\ [][NextRecurrence]_vars

\* two requests deleting different occurrences of unavailability 1
NextDeleteRace ==
  \/ deleteUnavailability("p1", "co1", 1, 7, Owner)
  \/ deleteUnavailability("p2", "co1", 1, 8, Owner)
  \/ \E p \in Procs : DeleteUnavailabilitySelect(p)
  \/ \E p \in Procs : DeleteUnavailabilityUpdate(p)

SpecDeleteRace == InitRecurrence /\ [][NextDeleteRace]_vars

\* ------------------------------------------------------------------------
\* Clients adding companies to their contacts, two requests at a time
\* ------------------------------------------------------------------------
Client == CHOOSE u \in Users : u.id = "u3" /\ u.slug = NULL

InitContacts ==
  /\ entreprise = SubscribedEntreprise
  /\ stripeSub = Sub("active", 1, "cus_A", "1", "monthly", STRIPE_PRICE_MONTHLY, NULL)
  /\ stripeCustomers = <<>>
  /\ now = 0
  /\ pc = [p \in Procs |-> "idle"]
  /\ loc = [p \in Procs |-> NoLoc]
  /\ resp = [p \in Procs |-> NoResp]
  /\ \E rows \in {{}, {ContactRow(1, "u3", 1)}} : client_contacts = rows
  /\ subscriptionStore = InitialStore
  /\ slots = InitialSlots
  /\ missions = InitialMissions
  /\ factures = {}
  /\ unavailabilities = {}

NextContacts ==
  \/ \E p \in Procs, ent \in {0, 1, 2}, user \in {Client, Owner, NoUser} :
       addContact(p, [entreprise_id |-> ent], user)
  \/ \E p \in Procs : AddContactSelect(p)
  \/ \E p \in Procs : AddContactInsert(p)
  \/ \E p \in Procs : AddContactNotify(p)

SpecContacts == InitContacts /\ [][NextContacts]_vars

\* ------------------------------------------------------------------------
\* Invoices of two subscribed companies: created, updated and paid
\* ------------------------------------------------------------------------
\* the entreprise rows with their hourly rate
WithRates(rows, rates) ==
  [e \in DOMAIN rows |-> rows[e] @@ [taux_horaire |-> rates[e]]]

\* both companies subscribed
BothSubscribed ==
  [e \in EntIds |-> [InitialEntreprise[e] EXCEPT !.subscription_status = "active"]]

InitFactures ==
  /\ \E rate \in {NoAmount, 20} :
       entreprise = WithRates(BothSubscribed, (1 :> rate) @@ (2 :> NoAmount))
  /\ stripeSub = Sub("active", 1, "cus_A", "1", "monthly", STRIPE_PRICE_MONTHLY, NULL)
  /\ stripeCustomers = <<>>
  /\ now = 0
  /\ pc = [p \in Procs |-> "idle"]
  /\ loc = [p \in Procs |-> NoLoc]
  /\ resp = [p \in Procs |-> NoResp]
  /\ client_contacts = {}
  /\ subscriptionStore = InitialStore
  /\ \E end \in {Hour(0), Hour(1), Hour(4)} :
       slots = InitialSlots \cup {SlotRow(4, 1, 1, Hour(1), end)}
  /\ missions = InitialMissions
  /\ factures = {FactureRow(1, 1, 1, "pending", 2, 20, 40, 40, 0)}
  /\ unavailabilities = {}

NextFactures ==
  \/ \E input \in FactureInputs, user \in {Owner, NoUser} :
       createFacture("p1", input, user)
  \/ CreateFactureSlots("p1")
  \/ CreateFactureRate("p1")
  \/ CreateFactureInsert("p1")
  \/ CreateFactureFetch("p1")
  \/ \E id \in {1, 9}, input \in FactureUpdates : updateFacture("p1", id, input, Owner)
  \/ UpdateFactureEntreprise("p1")
  \/ UpdateFactureWrite("p1")
  \/ UpdateFactureMission("p1")
  \/ UpdateFactureFetch("p1")
  \/ \E ev \in PaymentEvents :
       paymentsWebhook("p1", ev, Sign(ev, STRIPE_WEBHOOK_SECRET))
  \/ PaymentsWebhookSelect("p1")
  \/ PaymentsWebhookPaid("p1")
  \/ PaymentsWebhookMission("p1")
  \/ PaymentsWebhookNotify("p1")
  \/ PaymentsWebhookCancel("p1")

SpecFactures == InitFactures /\ [][NextFactures]_vars

\* ------------------------------------------------------------------------
\* The subscription gate and the access check of the owner's operations
\* ------------------------------------------------------------------------
Admin == CHOOSE u \in Users : u.id = "u9"

\* the callers of the gated operations
Callers == {Owner, Admin}

\* the inputs the callers give the operations on company 1
GateSlotBody == [start |-> Hour(2), end |-> Hour(3), mission_id |-> 0]
GateSlotUpdates == [end |-> Hour(3)]
GateUnavailabilityBody ==
  [start_time |-> "09:00", end_time |-> "10:00", start_date |-> 3,
   recurrence_type |-> "daily", recurrence_end |-> NoDay, weekday |-> NoDay]
GateUnavailabilityUpdates == [recurrence_end |-> 10]
GateFactureInput ==
  [entreprise_id |-> "co1", mission_id |-> 0, status |-> "pending",
   hours |-> 1, rate |-> 20, montant_ht |-> 20,
   montant_ttc |-> 20, tva |-> NoAmount]
GateFactureUpdate == [status |-> "paid"]

InitGate ==
  /\ \E status \in StoredStatuses, periodEnd \in {NoDate, toISOString(MsPerSec)} :
       /\ entreprise =
            WithRates([InitialEntreprise EXCEPT
                         ![1].subscription_status = status,
                         ![1].subscription_period_end = periodEnd],
                      [e \in EntIds |-> 20])
       /\ now \in IF periodEnd = NoDate THEN {0} ELSE {MsPerSec, MsPerSec + 1}
  /\ stripeSub = Sub("active", 1, "cus_A", "1", "monthly", STRIPE_PRICE_MONTHLY, NULL)
  /\ stripeCustomers = <<>>
  /\ pc = [p \in Procs |-> "idle"]
  /\ loc = [p \in Procs |-> NoLoc]
  /\ resp = [p \in Procs |-> NoResp]
  /\ client_contacts = {}
  /\ subscriptionStore = InitialStore
  /\ slots = InitialSlots
  /\ missions = InitialMissions
  /\ factures = {FactureRow(1, 1, 0, "pending", 2, 20, 40, 40, 0)}
  /\ unavailabilities = {UnavailabilityRow(1, 1, "weekly", 0, NoDay, 4, {})}

\* a caller starts a create, update or delete of a slot or an unavailability
MutationCall(p, user) ==
  \/ createSlot(p, "co1", GateSlotBody, user)
  \/ updateSlot(p, "co1", 1, GateSlotUpdates, user)
  \/ deleteSlot(p, "co1", 1, user)
  \/ createUnavailability(p, "co1", GateUnavailabilityBody, user)
  \/ updateUnavailability(p, "co1", 1, GateUnavailabilityUpdates, user)
  \/ \E date \in {NoDay, 7} : deleteUnavailability(p, "co1", 1, date, user)

\* a caller starts an operation on the invoices
FactureCall(p, user) ==
  \/ listFactures(p, "co1", user, 0)
  \/ createFacture(p, GateFactureInput, user)
  \/ updateFacture(p, 1, GateFactureUpdate, user)
  \/ sendFacture(p, 1, user)

NextGate ==
  \/ \E user \in Callers : MutationCall("p1", user)
  \/ \E user \in Callers : FactureCall("p1", user)
  \/ CreateSlotInsert("p1")
  \/ UpdateSlotWrite("p1")
  \/ DeleteSlotWrite("p1")
  \/ CreateUnavailabilityInsert("p1")
  \/ UpdateUnavailabilityWrite("p1")
  \/ DeleteUnavailabilitySelect("p1")
  \/ DeleteUnavailabilityUpdate("p1")
  \/ DeleteUnavailabilityDelete("p1")
  \/ ListFacturesSelect("p1")
  \/ CreateFactureInsert("p1")
  \/ CreateFactureFetch("p1")
  \/ UpdateFactureEntreprise("p1")
  \/ UpdateFactureWrite("p1")
  \/ UpdateFactureFetch("p1")
  \/ SendFactureEntreprise("p1")
  \/ SendFactureNotify("p1")

SpecGate == InitGate /\ [][NextGate]_vars

\* ------------------------------------------------------------------------
\* Slots and unavailabilities of a subscribed company, changed by its owner,
\* an admin and the owner of another company
\* ------------------------------------------------------------------------
InitAccess ==
  /\ entreprise = SubscribedEntreprise
  /\ stripeSub = Sub("active", 1, "cus_A", "1", "monthly", STRIPE_PRICE_MONTHLY, NULL)
  /\ stripeCustomers = <<>>
  /\ now = 0
  /\ pc = [p \in Procs |-> "idle"]
  /\ loc = [p \in Procs |-> NoLoc]
  /\ resp = [p \in Procs |-> NoResp]
  /\ client_contacts = {}
  /\ subscriptionStore = InitialStore
  /\ slots = InitialSlots
  /\ missions = InitialMissions
  /\ factures = {}
  /\ unavailabilities = {UnavailabilityRow(1, 1, "weekly", 0, NoDay, 4, {})}

NextAccess ==
  \/ \E user \in {Owner, Admin, Stranger} : MutationCall("p1", user)
  \/ CreateSlotInsert("p1")
  \/ UpdateSlotWrite("p1")
  \/ DeleteSlotWrite("p1")
  \/ CreateUnavailabilityInsert("p1")
  \/ UpdateUnavailabilityWrite("p1")
  \/ DeleteUnavailabilitySelect("p1")
  \/ DeleteUnavailabilityUpdate("p1")
  \/ DeleteUnavailabilityDelete("p1")

SpecAccess == InitAccess /\ [][NextAccess]_vars

\* ------------------------------------------------------------------------
\* Properties
\* ------------------------------------------------------------------------
\* the step in which request p's update of a row is applied and p answers
Applied(p) ==
  /\ pc[p] = "update"
  /\ pc'[p] = "idle"
  /\ resp'[p].kind = "ok"
  /\ resp'[p].warn = NULL

\* request p has answered after updating a row
Wrote(p) == resp[p].kind = "ok" /\ resp[p].wrote # 0

\* the stored period end is the period end of the subscription object
PeriodMatches(stored, subscription) ==
  IF subscription.current_period_end = 0
    THEN stored = NoDate
    ELSE DateIsFinite(stored)
         /\ DateGetTime(stored) = subscription.current_period_end * MsPerSec

StoredFields(row) ==
  <<row.subscription_status, row.subscription_plan, row.subscription_period_end>>

C2_AsStated ==
  [][\A p \in Procs : (Applied(p) /\ loc[p].repeat) =>
       StoredFields(entreprise'[loc[p].entreprise.id])
         = StoredFields(entreprise[loc[p].entreprise.id])]_vars

\* C2 amended: a second delivery of the same checkout.session.completed event
\* for which the vendor returns the same subscription object as for the first
\* leaves the stored status, plan and period end as the first delivery left them
C2_Redelivery ==
  [][\A p \in Procs : (Applied(p) /\ loc[p].repeat /\ loc[p].again) =>
       StoredFields(entreprise'[loc[p].entreprise.id])
         = StoredFields(entreprise[loc[p].entreprise.id])]_vars

\* a checkout event was applied a second time with the same vendor answer
C2_Witness ==
  \E p \in Procs : Wrote(p) /\ resp[p].seen.again /\ resp[p].seen.before # NULL

\* C3: the vendor is asked to create at most one customer per company
C3_AtMostOneCustomer ==
  \A e \in EntIds :
    Cardinality({i \in DOMAIN stripeCustomers : stripeCustomers[i] = IdString(e)}) <= 1

\* the answer to a signed webhook request is { received: true } or 401, 404, 500
SignedOutcome(p) ==
  (resp[p].kind # "none" /\ "sig" \notin DOMAIN resp[p]) =>
    \/ resp[p].kind = "ok"
    \/ resp[p].kind = "error" /\ resp[p].code \in {401, 404, 500}

\* C4: a webhook request with a valid signature is answered, whatever the
\* database and the vendor answer, and the answer is { received: true } or the
\* HTTP status 401, 404 or 500
C4_Outcomes ==
  /\ [](\A p \in Procs : SignedOutcome(p))
  /\ \A p \in Procs : (pc[p] # "idle") ~> (pc[p] = "idle" /\ resp[p].kind # "none")

\* a signed webhook request was answered 500
C4_Witness ==
  \E p \in Procs :
    resp[p].kind = "error" /\ "sig" \notin DOMAIN resp[p] /\ resp[p].code = 500

\* C5: a webhook request whose stripe-signature header is missing or does not
\* verify is answered 401 and no handler runs for it
C5_Rejected401 ==
  \A p \in Procs : "sig" \in DOMAIN resp[p] =>
    resp[p].kind = "error" /\ resp[p].code = 401 /\ pc[p] = "idle"

\* a subscription that resolves to no company
NoCompany(subscription) ==
  /\ \/ subscription.metadata.entreprise_id = NULL
     \/ findEntrepriseById(subscription.metadata.entreprise_id) = {}
  /\ \/ subscription.customer = NULL
     \/ findEntrepriseByCustomer(subscription.customer) = {}

\* C6: a signed checkout.session.completed event whose session carries no
\* entreprise_id, and a subscription that resolves to no company, are answered
\* { received: true } after a warning, without error and without any row
\* being modified (a session that is not in subscription mode is answered
\* { received: true } before its metadata is looked at)
C6_SilentNoop ==
  [][\A p \in Procs :
       /\ \A ev \in Events :
            (/\ ev.type \in CheckoutTypes
             /\ ev.object.metadata.entreprise_id = NULL
             /\ webhook(p, ev, Sign(ev, STRIPE_WEBHOOK_SECRET)))
            => /\ pc'[p] = "idle"
               /\ resp'[p].kind = "ok"
               /\ resp'[p].wrote = 0
               /\ (ev.object.mode = "subscription" => resp'[p].warn # NULL)
               /\ entreprise' = entreprise
       /\ (/\ pc[p] \in {"find_id", "find_customer"}
           /\ NoCompany(loc[p].subscription)
           /\ pc'[p] # pc[p])
          => /\ pc'[p] \in {"find_customer", "idle"}
             /\ pc'[p] = "idle" => resp'[p] = Received("unlinked", 0, Nothing)
             /\ entreprise' = entreprise]_vars

\* a checkout session without entreprise_id was answered { received: true }
C6_Witness ==
  \E p \in Procs :
    /\ resp[p].kind = "ok"
    /\ resp[p].warn = "checkout_no_metadata"
    /\ resp[p].wrote = 0
    /\ entreprise = InitialEntreprise

\* how the row about to be updated was found, for subscription and invoice events
ResolvedInOrder(l) ==
  LET id == l.subscription.metadata.entreprise_id
  IN \/ /\ l.by = "id"
        /\ l.idLookup = "hit"
        /\ id = IdString(l.entreprise.id)
     \/ /\ l.by = "customer"
        /\ l.entreprise.stripe_customer_id = l.subscription.customer
        /\ \/ id = NULL /\ l.idLookup = "skipped"
           \/ id # NULL /\ l.idLookup = "error"
           \/ id # NULL /\ l.idLookup = "miss" /\ findEntrepriseById(id) = {}

\* how the row about to be updated was found, for checkout events
ResolvedById(l) ==
  /\ l.by = "id"
  /\ l.delivery.session.metadata.entreprise_id = IdString(l.entreprise.id)

\* the update of request p changes the row it resolved and no other
AppliedToResolved(p) ==
  Applied(p) =>
    /\ resp'[p].wrote = loc[p].entreprise.id
    /\ \A e \in EntIds \ {loc[p].entreprise.id} : entreprise'[e] = entreprise[e]

\* a checkout event was dropped although its customer is a company's customer
DroppedDespiteCustomer(p) ==
  /\ resp'[p] # resp[p]
  /\ resp'[p].kind = "ok"
  /\ resp'[p].seen.k = "dropped"
  /\ findEntrepriseByCustomer(resp'[p].seen.customer) # {}

\* C7 as stated: for checkout, subscription and invoice events alike the company
\* is the one the metadata id names, else the one the vendor customer id names
C7_AsStated ==
  [][\A p \in Procs :
       /\ pc[p] = "update" =>
            /\ IF loc[p].via = "checkout"
                 THEN ResolvedById(loc[p]) ELSE ResolvedInOrder(loc[p])
            /\ AppliedToResolved(p)
       /\ ~DroppedDespiteCustomer(p)]_vars

\* C7 amended: for customer.subscription.* and invoice.payment_* events the
\* company is the one the metadata id names and, when there is no id or the
\* lookup by id finds nothing or fails, the one the vendor customer id names;
\* for checkout.session.completed it is the one the session's metadata id names
\* and nothing else; the update changes that company's row and no other
C7_Resolution ==
  [][\A p \in Procs :
       pc[p] = "update" =>
         /\ IF loc[p].via = "checkout"
              THEN ResolvedById(loc[p]) ELSE ResolvedInOrder(loc[p])
         /\ AppliedToResolved(p)]_vars

\* a subscription naming no company by id was applied to its customer's company
C7_Witness ==
  \E p \in Procs :
    /\ Wrote(p)
    /\ resp[p].seen.by = "customer"
    /\ resp[p].seen.via \in {"subscription", "invoice"}

\* what the applied update of request p stores, given the subscription object
StoresObject(p, subscription) ==
  LET row == entreprise'[loc[p].entreprise.id]
  IN /\ row.subscription_status = subscription.status
     /\ PeriodMatches(row.subscription_period_end, subscription)

\* C8 as stated: every applied update stores the status, plan and period end
\* of a subscription object fetched from the vendor while handling the event
C8_AsStated ==
  [][\A p \in Procs : Applied(p) =>
       /\ loc[p].origin.k = "fetched"
       /\ StoresObject(p, loc[p].origin.object)
       /\ entreprise'[loc[p].entreprise.id].subscription_plan
            = inferPlanFromSubscription(loc[p].origin.object)]_vars

\* C8 amended: checkout.session.completed and invoice.payment_* updates store
\* the status and period end of the subscription fetched from the vendor while
\* handling; customer.subscription.* updates store those of the event payload,
\* nothing being fetched; the stored plan is the one the session metadata names
\* (checkout) or the subscription's metadata or price names (the others), and
\* stays the plan read from the row when none is named
C8_Overwrite ==
  [][\A p \in Procs : Applied(p) =>
       /\ loc[p].via \in {"checkout", "invoice"} =>
            loc[p].origin.k = "fetched" /\ loc[p].subscription = loc[p].origin.object
       /\ loc[p].via = "subscription" => loc[p].origin.k = "payload"
       /\ StoresObject(p, loc[p].subscription)
       /\ loc[p].plan = IF loc[p].via = "checkout"
                          THEN loc[p].delivery.session.metadata.plan
                          ELSE inferPlanFromSubscription(loc[p].subscription)
       /\ entreprise'[loc[p].entreprise.id].subscription_plan
            = Coalesce(loc[p].plan, loc[p].entreprise.subscription_plan)]_vars

\* a customer.subscription.* update stored a status the vendor does not hold
C8_Witness ==
  \E p \in Procs :
    /\ Wrote(p)
    /\ resp[p].seen.via = "subscription"
    /\ entreprise[resp[p].wrote].subscription_status = resp[p].seen.carried
    /\ resp[p].seen.carried # stripeSub.status

\* C9: whatever status the row holds, an applied subscription event leaves the
\* status it carries in the row
C9_NoTransitionCheck ==
  [][\A p \in Procs : (Applied(p) /\ loc[p].via = "subscription") =>
       entreprise'[loc[p].entreprise.id].subscription_status
         = loc[p].subscription.status]_vars

\* a row stored as canceled was set back to active by a subscription event
C9_Witness ==
  \E p \in Procs :
    /\ Wrote(p)
    /\ resp[p].seen.via = "subscription"
    /\ resp[p].seen.before = "canceled"
    /\ resp[p].seen.carried = "active"
    /\ entreprise[resp[p].wrote].subscription_status = "active"

\* C10: of two deliveries handled concurrently, each one's update is applied
\* when its write answers, whether or not the row changed since it was read and
\* whatever the other delivery wrote: the row then holds its status and period
C10_LastWriteWins ==
  [][\A p \in Procs : Applied(p) =>
       LET e == loc[p].entreprise.id
       IN /\ resp'[p].wrote = e
          /\ entreprise'[e].subscription_status = loc[p].update.subscription_status
          /\ entreprise'[e].subscription_period_end = loc[p].update.subscription_period_end
          /\ loc[p].update.subscription_status = loc[p].subscription.status]_vars

\* both deliveries read the row before either wrote; the older event was
\* written last and its status is the one stored
C10_Witness ==
  \E p \in Procs, q \in Procs :
    /\ p # q
    /\ Wrote(p) /\ Wrote(q)
    /\ resp[p].wrote = resp[q].wrote
    /\ resp[p].seen.stale /\ ~resp[q].seen.stale
    /\ resp[p].seen.before = resp[q].seen.carried
    /\ resp[p].seen.created < resp[q].seen.created
    /\ resp[p].seen.carried # resp[q].seen.carried
    /\ entreprise[resp[p].wrote].subscription_status = resp[p].seen.carried

\* C11: no error of the vendor or of the database met while an event is
\* handled ends in { received: true }: every one surfaces as a 5xx response
C11_ErrorsSurface ==
  \A p \in Procs : resp[p].kind = "ok" => resp[p].warn # "invoice_error"

\* C17: the status getStatus returns is one of active, trialing, past_due,
\* canceled, incomplete; a stored status of that set is returned as it is and
\* every other stored value (null, empty, any other string) as incomplete
C17_ClosedEnum ==
  \A p \in Procs : resp[p].kind = "status" =>
    LET stored == resp[p].row.subscription_status
        enum == {"active", "trialing", "past_due", "canceled", "incomplete"}
    IN /\ resp[p].status \in enum
       /\ stored \in enum => resp[p].status = stored
       /\ stored \notin enum => resp[p].status = "incomplete"

\* a status copied from the vendor that is not of the enum was returned as incomplete
C17_Witness ==
  \E p \in Procs :
    /\ resp[p].kind = "status"
    /\ resp[p].row.subscription_status = "unpaid"
    /\ resp[p].status = "incomplete"

\* C18: createCheckout for a slug matching no company fails with 404, and for
\* a caller who is neither owner nor admin with 403 (404 when the lookup of
\* the company itself fails); in both cases no vendor customer or session has
\* been created and no row written, and a request goes on to create or write
\* only for a company that was found and that its caller may access
C18_FailsBeforeEffects ==
  [][\A p \in Procs :
       /\ (pc[p] = "cc_load" /\ pc'[p] # "cc_load") =>
            LET rows == loadEntrepriseBySlug(loc[p].slug)
                denied == /\ rows # {}
                          /\ ~canAccessEntreprise(loc[p].user,
                                                  entreprise[CHOOSE e \in rows : TRUE])
            IN /\ rows = {} => resp'[p].kind = "error" /\ resp'[p].code = 404
               /\ denied =>
                    /\ resp'[p].kind = "error"
                    /\ resp'[p].code = IF resp'[p].lookup = "ok" THEN 403 ELSE 404
               /\ (rows = {} \/ denied) =>
                    /\ pc'[p] = "idle"
                    /\ entreprise' = entreprise
                    /\ stripeCustomers' = stripeCustomers
       /\ pc[p] \in {"idle", "cc_load"} =>
            (pc'[p] # pc[p] =>
               entreprise' = entreprise /\ stripeCustomers' = stripeCustomers)
       /\ pc[p] \in {"cc_create", "cc_save", "cc_referral", "cc_session"} =>
            /\ loc[p].entreprise.slug = loc[p].slug
            /\ canAccessEntreprise(loc[p].user, loc[p].entreprise)]_vars

\* a caller who is neither owner nor admin was answered 403, nothing created
C18_Witness ==
  \E p \in Procs :
    /\ resp[p].kind = "error"
    /\ resp[p].code = 403
    /\ stripeCustomers = <<>>
    /\ entreprise = InitialEntreprise

\* C13: in every state reached by createSlot, updateSlot and deleteSlot, each
\* slot that names a mission names a mission of its own company
C13_SlotMissionSameCompany ==
  \A r \in slots :
    r.mission_id # 0 =>
      /\ r.mission_id \in DOMAIN missions
      /\ missions[r.mission_id].entreprise_id = r.entreprise_id

\* a slot of a proposed or refused mission is in a public answer of listSlots
ReturnsUnconfirmed(p) ==
  \E i \in DOMAIN resp[p].slots :
    resp[p].slots[i].mission_status \in {"proposed", "refused"}

OccurrenceDays(listing, id) ==
  {listing[i].start_date : i \in {j \in DOMAIN listing : listing[j].id = id}}

\* the listing of the same rows had none of them an exception
Unexcepted(data) == [i \in DOMAIN data |-> [data[i] EXCEPT !.exceptions = {}]]

\* C16: in a listing, an exception date of a weekly unavailability that falls
\* on one of its occurrences removes that occurrence and no other: the
\* occurrences one week before and one week after, when the window and the
\* recurrence hold them, are listed
C16_ExceptionRemovesOne ==
  \A p \in Procs :
    resp[p].kind = "unavailabilities" =>
      \A i \in DOMAIN resp[p].data :
        LET item == resp[p].data[i]
            listed == OccurrenceDays(resp[p].unavailabilities, item.id)
            plain == OccurrenceDays(
                       expandRecurrences(Unexcepted(resp[p].data),
                                         resp[p].start, resp[p].end), item.id)
        IN item.recurrence_type = "weekly" =>
             /\ listed = plain \ item.exceptions
             /\ \A d \in plain : getUTCDay(Midnight(d)) = item.weekday
             /\ \A d \in item.exceptions \cap plain :
                  /\ d \notin listed
                  /\ \A w \in {d - DaysPerWeek, d + DaysPerWeek} :
                       (/\ w \notin item.exceptions
                        /\ w >= DayOf(resp[p].start)
                        /\ Midnight(w) + (resp[p].start % HalfDaysPerDay) <= resp[p].end
                        /\ w >= item.start_date
                        /\ item.recurrence_end # NoDay =>
                             Midnight(w) + (resp[p].start % HalfDaysPerDay)
                               <= Midnight(item.recurrence_end))
                       => w \in listed

\* a weekly unavailability listed with day 7 excepted and days 0 and 14 kept
C16_Witness ==
  /\ resp["p1"].kind = "unavailabilities"
  /\ Len(resp["p1"].data) = 1
  /\ resp["p1"].data[1].recurrence_type = "weekly"
  /\ resp["p1"].data[1].exceptions = {7}
  /\ OccurrenceDays(resp["p1"].unavailabilities, 1) = {0, 14}

\* C14: whenever no request is in flight, an invoice whose status is paid and
\* that is linked to a mission has that mission in status paid
C14_PaidInvoicePaidMission ==
  (\A p \in Procs : pc[p] = "idle") =>
    \A f \in factures :
      (f.status = "paid" /\ f.mission_id # 0) =>
        missions[f.mission_id].status = "paid"

\* the hours a mission's slots cover: the hours h some slot of the mission
\* starts at or before and ends after
HoursOf(mission) ==
  Cardinality({sh \in {s \in slots : s.mission_id = mission} \X (0..23) :
                 /\ DateGetTime(sh[1].start) <= sh[2] * MsPerHour
                 /\ (sh[2] + 1) * MsPerHour <= DateGetTime(sh[1].end)})

\* the hourly rate of a company, 0 when unset
RateOf(e) ==
  IF entreprise[e].taux_horaire = NoAmount THEN 0 ELSE entreprise[e].taux_horaire

\* C15: the invoice createFacture answers for a mission, and the row it
\* stored, carry the hours of the mission's slots that end after they start
\* and montant_ht = hours x the company's hourly rate (0 when unset),
\* whatever hours, rate and montant_ht the input named
C15_RecomputedFromSlots ==
  \A p \in Procs :
    (resp[p].kind = "facture" /\ resp[p].op = "createFacture"
       /\ resp[p].input.mission_id # 0) =>
      LET f == resp[p].facture
      IN /\ f \in factures
         /\ f.hours = HoursOf(f.mission_id)
         /\ f.rate = RateOf(f.entreprise_id)
         /\ f.montant_ht = HoursOf(f.mission_id) * RateOf(f.entreprise_id)

\* an invoice created for mission 1 from an input naming 9 hours at rate 9:
\* the two slots of the mission, 2 and 3 hours long, make 5 hours at rate 20
C15_Witness ==
  /\ resp["p1"].kind = "facture"
  /\ resp["p1"].op = "createFacture"
  /\ resp["p1"].input.hours = 9
  /\ resp["p1"].input.mission_id = 1
  /\ resp["p1"].facture.hours = 5
  /\ resp["p1"].facture.montant_ht = 100

\* the subscription of a company row does not give access at time t: its status
\* is neither active nor trialing, or its period end is a date before t
Lapsed(row, t) ==
  \/ row.subscription_status \notin {"active", "trialing"}
  \/ /\ row.subscription_period_end # NoDate
     /\ DateGetTime(row.subscription_period_end) < t

\* the stages in which a request has not yet met the gate
BeforeGate == {"idle", "uf_entreprise", "sf_entreprise"}

\* the caller a step of request p from a stage before the gate acts for
CallerOf(p) ==
  IF pc[p] # "idle" THEN loc[p].user
  ELSE IF pc'[p] # "idle" THEN loc'[p].user
  ELSE IF "user" \in DOMAIN resp'[p] THEN resp'[p].user
  ELSE NoUser

\* the step in which an operation of the owner or an admin loads the company
\* and meets the gate
GateStep(p) ==
  /\ pc[p] \in BeforeGate
  /\ pc'[p] \notin {"uf_entreprise", "sf_entreprise"}
  /\ pc'[p] # "idle" \/ "user" \in DOMAIN resp'[p]
  /\ CallerOf(p) \in {Owner, Admin}

\* request p is refused: Forbidden by the gate, or Not Found when the company
\* could not be loaded
GateRefusal(r) ==
  /\ r.kind = "error"
  /\ \/ r.code = 403 /\ r.why = "subscription"
     \/ r.code = 404 /\ r.why = "entreprise"

\* C12: an operation of the owner or an admin that is gated by the
\* subscription is refused (Forbidden once the company is loaded) and writes
\* nothing when the stored status is neither active nor trialing or the period
\* end is a date in the past; it goes on past the gate only when the status is
\* active or trialing and the period end is not in the past; the tables are
\* written only by requests that went past the gate
C12_GateBeforeWrites ==
  [][/\ \A p \in Procs :
          GateStep(p) =>
            /\ UNCHANGED <<office, entreprise>>
            /\ Lapsed(entreprise[1], now) =>
                 /\ pc'[p] = "idle"
                 /\ GateRefusal(resp'[p])
            /\ ~Lapsed(entreprise[1], now) =>
                 (pc'[p] = "idle" => /\ resp'[p].kind = "error"
                                     /\ resp'[p].code \in {400, 404})
     /\ office' # office => \E p \in Procs : pc[p] \notin BeforeGate]_vars

\* the owner of a company whose subscription is past due was refused by the gate
C12_Witness ==
  /\ entreprise[1].subscription_status = "past_due"
  /\ resp["p1"].kind = "error"
  /\ resp["p1"].code = 403
  /\ resp["p1"].why = "subscription"
  /\ office = <<InitialSlots, InitialMissions,
                {FactureRow(1, 1, 0, "pending", 2, 20, 40, 40, 0)},
                {UnavailabilityRow(1, 1, "weekly", 0, NoDay, 4, {})},
                {}, InitialStore>>

\* C19: a create, update or delete of a slot or an unavailability of a company
\* (the delete of one occurrence by date included) by an authenticated user who
\* is neither its owner nor an admin is refused with Forbidden once the company
\* is loaded, and the tables stay as they are
C19_StrangerRefused ==
  [][\A p \in Procs :
       (pc[p] = "idle" /\ CallerOf(p) = Stranger) =>
         /\ pc'[p] = "idle"
         /\ resp'[p].kind = "error"
         /\ \/ resp'[p].code = 403 /\ resp'[p].why = "access"
            \/ resp'[p].code = 404 /\ resp'[p].why = "entreprise"
         /\ UNCHANGED office]_vars

\* the owner of another company was refused on a subscribed company
C19_Witness ==
  /\ resp["p1"].kind = "error"
  /\ resp["p1"].code = 403
  /\ resp["p1"].why = "access"
  /\ resp["p1"].user = Stranger
  /\ \E r \in slots : r.id = MaxSlotId
  /\ \E r \in unavailabilities : r.exceptions # {}

\* C21: when deleteUnavailability called with a date answers
\* { success: true, partial: true }, the record is still there and the date
\* is among its exceptions
C21_ExceptionRecorded ==
  [][\A p \in Procs :
       (pc[p] = "du_update" /\ pc'[p] = "idle" /\ resp'[p].kind = "success") =>
         \E r \in unavailabilities' :
           r.id = loc[p].id /\ loc[p].date \in r.exceptions]_vars

\* C22: once a company's referred_by is set, no step changes it
C22_ReferralOnce ==
  [][\A e \in DOMAIN entreprise :
       entreprise[e].referred_by # NULL =>
         entreprise'[e].referred_by = entreprise[e].referred_by]_vars

\* C29: once a company's stripe_customer_id is set, no step replaces it with
\* a different value
C29_CustomerKept ==
  [][\A e \in DOMAIN entreprise :
       entreprise[e].stripe_customer_id # NULL =>
         entreprise'[e].stripe_customer_id = entreprise[e].stripe_customer_id]_vars

\* the last deleteUnavailability of p with a date completed and its update
\* of the exceptions succeeded
DeletedOccurrence(p) ==
  /\ pc[p] = "idle"
  /\ resp[p].kind = "success"
  /\ resp[p].op = "deleteUnavailability"
  /\ resp[p].partial
  /\ resp[p].update = "ok"

\* C26: when the deletions of occurrences 7 and 8 have both completed, the
\* exceptions of the record contain both dates
C26_NoLostDeletion ==
  (DeletedOccurrence("p1") /\ DeletedOccurrence("p2")) =>
    \A r \in unavailabilities : r.id = 1 => {7, 8} \subseteq r.exceptions

\* C28: an updateFacture whose input carries no mission_id leaves the
\* mission_id of the invoice as it was
C28_MissionLinkKept ==
  [][\A p \in Procs :
       (/\ pc[p] = "uf_update"
        /\ pc'[p] \in {"uf_mission", "uf_fetch"}
        /\ "mission_id" \notin DOMAIN loc[p].input) =>
         \A f \in factures : \A g \in factures' :
           (f.id = loc[p].id /\ g.id = loc[p].id) => g.mission_id = f.mission_id]_vars

\* C25: getStatus answers isActive = true exactly when assertActiveSubscription
\* does not throw for the same row at the same time
C25_StatusAgreesWithGate ==
  \A p \in Procs : resp[p].kind = "status" =>
    resp[p].isActive = assertActiveSubscription(resp[p].row, resp[p].at)

\* getStatus answered isActive for a row with an unparseable period end that
\* assertActiveSubscription accepts
C25_Witness ==
  \E p \in Procs :
    /\ resp[p].kind = "status"
    /\ resp[p].row.subscription_period_end = BadDate
    /\ resp[p].isActive
    /\ assertActiveSubscription(resp[p].row, resp[p].at)

\* C24: a navigation to a route with meta.requiresSubscription that the guard
\* lets proceed found hasAccess true in the store
C24_ProceedsOnlyWithAccess ==
  \A p \in Procs :
    (/\ resp[p].kind = "navigation"
     /\ resp[p].to.requiresSubscription
     /\ resp[p].target = resp[p].to.name) => hasAccess(resp[p].seen)

\* a refresh of p that sent its request comes back with the status or with
\* an ApiError of status 401 or 403
Responded(p) ==
  /\ pc[p] = "rf_request"
  /\ pc'[p] = "idle"
  /\ resp'[p].answer \in {"ok", "401", "403"}

\* no request but p's takes the step
Alone(p) ==
  \A q \in Procs \ {p} : pc'[q] = pc[q] /\ resp'[q] = resp[q]

\* p calls refresh({ force: true }) or reset()
Invalidates(p) ==
  /\ pc[p] = "idle"
  /\ Alone(p)
  /\ \/ pc'[p] = "rf_request" /\ loc'[p].force
     \/ pc'[p] = "idle" /\ resp'[p].kind = "reset"

\* p calls refresh() without force, from a page or from the guard
Refreshes(p) ==
  /\ pc[p] = "idle"
  /\ \/ pc'[p] = "rf_request" /\ ~loc'[p].force
     \/ pc'[p] = "idle" /\ resp'[p] # resp[p] /\ resp'[p].kind = "refresh"

\* C23: a refresh answered with the status or with a 401/403 marks the store
\* as loaded, only refresh({ force: true }) and reset() unmark it, and a
\* refresh() without force on a loaded store sends no request and leaves
\* every field of the store as it was
C23_CachedStatus ==
  [][\A p \in Procs :
       /\ Responded(p) => subscriptionStore'.hasLoadedOnce
       /\ (subscriptionStore.hasLoadedOnce /\ ~subscriptionStore'.hasLoadedOnce) =>
            \E q \in Procs : Invalidates(q)
       /\ (Refreshes(p) /\ subscriptionStore.hasLoadedOnce) =>
            (pc'[p] = "idle" /\ subscriptionStore' = subscriptionStore)]_vars

\* a refresh() found the store loaded by an earlier answer and sent nothing
C23_Witness ==
  \E p \in Procs :
    /\ resp[p].kind = "refresh"
    /\ ~resp[p].sent
    /\ subscriptionStore.hasLoadedOnce
    /\ subscriptionStore.isActive

\* the client of request p already has its company among its contacts
InContacts(p) == ContactsOf(loc[p].user.id, loc[p].dto.entreprise_id) # {}

\* C27: at most one client_contacts row exists for a client and a company,
\* and an addContact that reaches its insert for a pair that already exists
\* answers the already-in-contacts message and inserts nothing
C27_OneContactPerPair ==
  [][/\ \A r1, r2 \in client_contacts' :
          (r1.client_id = r2.client_id /\ r1.entreprise_id = r2.entreprise_id) =>
            r1.id = r2.id
     /\ \A p \in Procs :
          (pc[p] = "ac_insert" /\ pc'[p] # "ac_insert" /\ InContacts(p)) =>
            (resp'[p].kind = "message" /\ client_contacts' = client_contacts)]_vars

====
